---- MODULE Spec2Model ----
(***************************************************************************)
(* Model of QwenMiniInterface (utils/qwen_mini_interface.py): the          *)
(* multi-attempt orchestrator execute_code_cli, the agent driver           *)
(* _run_agent_with_controls with its add_message wrapper, the patch        *)
(* quality gate and the test gate.                                         *)
(*                                                                         *)
(* Text is abstracted to the features the code reads from it: a diff is    *)
(* named by an identifier whose lines are tabulated in DiffLines and whose  *)
(* other features in DiffInfo; a command is its sequence of                *)
(* whitespace-separated tokens; a user message is the record of the        *)
(* substrings the wrapper searches for.  An optional value (Python None)   *)
(* is a sequence of length at most one.                                    *)
(***************************************************************************)
EXTENDS Integers, Sequences, FiniteSets, TLC

\* ------------------------------------------------------------------ bounds
\* largest max_attempts explored
MaxAttempts == 2
\* step_limit of the driver runs (model calls of one agent)
MaxSteps == 3
\* largest number of FAIL_TO_PASS / PASS_TO_PASS tests of a task
MaxTests == 1

\* ------------------------------------------------------- program constants
search_streak_limit == 8
no_diff_streak_limit == 8
repeated_fail_limit == 3
sed_fail_limit == 2
p2p_smoke_count == 10
max_changed_lines == 200
max_files_changed == 3
duplicate_line_threshold == 4
catastrophic_deletion_ratio == 5
catastrophic_deletion_floor == 50
max_retries == 2
pytest_timeout_returncode == 124
compile_task_file_limit == 10

\* ------------------------------------------------------------ optionals
None == <<>>
Some(v) == <<v>>
IsNone(x) == x = <<>>
Val(x) == x[1]

Min(a, b) == IF a < b THEN a ELSE b
Max(a, b) == IF a > b THEN a ELSE b

\* ----------------------------------------------------------------- diffs
\* The working-tree diffs (stdout of `git diff HEAD`) the model knows.  ""
\* is the empty diff.  For each: its length, the largest repetition of an
\* added line, whether an added line holds a placeholder marker, whether
\* the def headers differ, and for each changed .py file whether the
\* current source compiles and what the HEAD baseline does (DiffInfo); and
\* its lines (DiffLines).
DiffIds ==
    {"", "d_ok", "d_warn", "d_syn", "d_pre", "d_new", "d_todo", "d_wide", "d_del",
     "d_swap", "d_purge", "d_blank", "d_sql", "d_mix", "d_many"}

PyFile(name, cur, base) == [file |-> name, current_ok |-> cur, baseline |-> base]

\* The files of d_many: one more than a compile-repair task lists, none of
\* which compiles any longer.
ManyFiles ==
    <<"f01.py", "f02.py", "f03.py", "f04.py", "f05.py", "f06.py", "f07.py",
      "f08.py", "f09.py", "f10.py", "f11.py">>

Feat(ch, dup, ph, sg, py) ==
    [chars |-> ch, dup_max |-> dup, placeholder |-> ph, sig_change |-> sg, py |-> py]

DiffInfo(d) ==
    CASE d = ""        -> Feat(0, 0, FALSE, FALSE, <<>>)
      [] d = "d_ok"    -> Feat(10, 1, FALSE, FALSE, <<PyFile("a.py", TRUE, "ok")>>)
      [] d = "d_warn"  -> Feat(20, 1, FALSE, TRUE, <<PyFile("a.py", TRUE, "ok")>>)
      [] d = "d_syn"   -> Feat(15, 1, FALSE, FALSE, <<PyFile("a.py", FALSE, "ok")>>)
      [] d = "d_pre"   -> Feat(16, 1, FALSE, FALSE, <<PyFile("b.py", FALSE, "fail")>>)
      [] d = "d_new"   -> Feat(17, 1, FALSE, FALSE, <<PyFile("n.py", FALSE, "missing")>>)
      [] d = "d_todo"  -> Feat(12, 1, TRUE, FALSE, <<PyFile("a.py", TRUE, "ok")>>)
      [] d = "d_wide"  -> Feat(40, 1, FALSE, FALSE, <<PyFile("a.py", TRUE, "ok")>>)
      [] d = "d_del"   -> Feat(700, 1, FALSE, FALSE, <<PyFile("a.py", TRUE, "ok")>>)
      [] d = "d_swap"  -> Feat(90, 1, FALSE, FALSE, <<PyFile("a.py", TRUE, "ok")>>)
      [] d = "d_purge" -> Feat(110, 0, FALSE, FALSE, <<PyFile("a.py", TRUE, "ok")>>)
      [] d = "d_blank" -> Feat(80, 1, FALSE, FALSE, <<PyFile("a.py", TRUE, "ok")>>)
      [] d = "d_sql"   -> Feat(85, 1, FALSE, FALSE, <<PyFile("a.py", TRUE, "ok")>>)
      [] d = "d_mix"   -> Feat(30, 1, FALSE, FALSE,
                               <<PyFile("a.py", FALSE, "ok"), PyFile("b.py", FALSE, "fail"),
                                 PyFile("c.py", TRUE, "ok")>>)
      [] d = "d_many"  -> Feat(60, 1, FALSE, FALSE,
                               [i \in 1..Len(ManyFiles) |->
                                   PyFile(ManyFiles[i], FALSE, "ok")])

\* A diff's text is a sequence of runs of n equal lines.  kind says what
\* git wrote the line for; text is the line's first four characters, all
\* that the gate's line patterns read.
Ln(kind, text, n) == [kind |-> kind, text |-> text, n |-> n]
GitLine == Ln("git", <<"d", "i", "f", "f">>, 1)
MinusHeader == Ln("header", <<"-", "-", "-", " ">>, 1)
PlusHeader == Ln("header", <<"+", "+", "+", " ">>, 1)
Hunk == Ln("hunk", <<"@", "@", " ", "-">>, 1)
\* The header lines git writes for one changed file.
FileHead == <<GitLine, MinusHeader, PlusHeader, Hunk>>
\* n removed lines `-x...`, n removed empty lines `-`, n removed lines
\* whose content starts with `-- ` (an SQL comment).
Removed(n) == Ln("removed", <<"-", "x">>, n)
RemovedBlank(n) == Ln("removed", <<"-">>, n)
RemovedDashes(n) == Ln("removed", <<"-", "-", "-", " ">>, n)
\* n added lines `+x...`, n added empty lines `+`, n added lines whose
\* content starts with `+++`.
Added(n) == Ln("added", <<"+", "x">>, n)
AddedBlank(n) == Ln("added", <<"+">>, n)
AddedPluses(n) == Ln("added", <<"+", "+", "+", "+">>, n)

DiffLines(d) ==
    CASE d = ""        -> <<>>
      [] d = "d_ok"    -> FileHead \o <<Removed(1), Added(2)>>
      [] d = "d_warn"  -> FileHead \o <<Removed(1), Added(1)>>
      [] d = "d_syn"   -> FileHead \o <<Removed(1), Added(2)>>
      [] d = "d_pre"   -> FileHead \o <<Removed(1), Added(2)>>
      [] d = "d_new"   -> FileHead \o <<Added(3)>>
      [] d = "d_todo"  -> FileHead \o <<Added(1)>>
      [] d = "d_wide"  -> FileHead \o <<Removed(1), Added(1)>> \o FileHead
                          \o <<Removed(1), Added(1)>> \o FileHead
                          \o <<Removed(1), Added(1)>> \o FileHead
                          \o <<Removed(1), Added(1)>>
      [] d = "d_del"   -> FileHead \o <<Removed(600), Added(10)>>
      [] d = "d_swap"  -> FileHead \o <<Removed(40), Added(39)>>
      [] d = "d_purge" -> FileHead \o <<Removed(100)>>
      [] d = "d_blank" -> FileHead \o <<Removed(1), RemovedBlank(60), Added(2), AddedBlank(1)>>
      [] d = "d_sql"   -> FileHead \o <<RemovedDashes(60), Removed(2), Added(1), AddedPluses(1)>>
      [] d = "d_mix"   -> FileHead \o <<Added(1)>> \o FileHead \o <<Added(1)>>
                          \o FileHead \o <<Added(1)>>
      [] d = "d_many"  -> [k \in 1..(5 * Len(ManyFiles)) |->
                             IF k % 5 = 0 THEN Added(1) ELSE FileHead[k % 5]]

\* The number of lines of the runs of `lines` that satisfy Test.
RECURSIVE SumLines(_)
SumLines(lines) ==
    IF lines = <<>> THEN 0 ELSE Head(lines).n + SumLines(Tail(lines))
CountLines(lines, Test(_)) == SumLines(SelectSeq(lines, Test))

StartsWith(text, prefix) ==
    Len(text) >= Len(prefix) /\ SubSeq(text, 1, Len(prefix)) = prefix

\* re.findall(r"^diff --git ", diff): a line git opens a file's diff with.
IsDiffGit(l) == l.kind = "git"
\* r"^-(?!--)." : a `-`, not followed by `--`, followed by one character.
IsRemovedLine(l) ==
    /\ StartsWith(l.text, <<"-">>)
    /\ ~StartsWith(l.text, <<"-", "-", "-">>)
    /\ Len(l.text) >= 2
\* r"^\+(?!\+\+\+)(.*)$" : a `+`, not followed by `+++`.
IsAddedLine(l) ==
    /\ StartsWith(l.text, <<"+">>)
    /\ ~StartsWith(l.text, <<"+", "+", "+", "+">>)

FilesChanged(d) == CountLines(DiffLines(d), IsDiffGit)
RemovedLinesCount(d) == CountLines(DiffLines(d), IsRemovedLine)
AddedLinesCount(d) == CountLines(DiffLines(d), IsAddedLine)

\* What the diff removes and adds: the lines git wrote for a removed and
\* for an added line of a file.
IsRemovedContent(l) == l.kind = "removed"
IsAddedContent(l) == l.kind = "added"
RemovedContent(d) == CountLines(DiffLines(d), IsRemovedContent)
AddedContent(d) == CountLines(DiffLines(d), IsAddedContent)

\* _compute_diff_signature: "EMPTY" for an empty diff, else a fingerprint
\* of the length and the hash of the text (here: the diff's identity).
EMPTY == <<"EMPTY">>
ComputeDiffSignature(d) ==
    IF d = "" THEN EMPTY ELSE <<"LEN", DiffInfo(d).chars, "HASH", d>>
\* `except Exception: return "DIFF_ERR"` (lines 701-702): what the caller
\* gets when `git diff HEAD` could not be run or its output not be decoded.
DIFF_ERR == <<"DIFF_ERR">>
DiffSignature(d, child) ==
    IF child = "raise" THEN DIFF_ERR ELSE ComputeDiffSignature(d)

\* ---------------------------------------------------------- quality gate
\* _check_compile_gate: a changed .py file whose current source compiles is
\* skipped; one that does not is a failure when the baseline is missing or
\* compiles, and a pre-existing failure when the baseline fails too.
BlamesPatchOnRegressionOnly(f) == ~f.current_ok /\ f.baseline = "ok"
BlamesPatch(f) == ~f.current_ok /\ f.baseline \in {"missing", "ok"}

CheckCompileGate(d) ==
    LET py == DiffInfo(d).py
        IsFailed(f) == BlamesPatch(f)
        IsPre(f) == ~f.current_ok /\ ~BlamesPatch(f)
        failed == SelectSeq(py, IsFailed)
        pre == SelectSeq(py, IsPre)
    IN  [enabled |-> TRUE,
         python_files_changed |-> Len(py),
         compile_checked |-> Len(py),
         compile_failed |-> Len(failed),
         compile_failed_files |-> [i \in 1..Len(failed) |-> failed[i].file],
         compile_skipped_preexisting |-> Len(pre)]

CompileGateDisabled ==
    [enabled |-> FALSE, python_files_changed |-> 0, compile_checked |-> 0,
     compile_failed |-> 0, compile_failed_files |-> <<>>,
     compile_skipped_preexisting |-> 0]

Opt(cond, tag) == IF cond THEN <<tag>> ELSE <<>>

\* _validate_patch_quality: the decision for diff d.  reason is the list of
\* tags that the code joins with ",".
ValidatePatchQuality(d, compile_gate_on) ==
    LET f == DiffInfo(d)
        files_changed == FilesChanged(d)
        removed_lines_count == RemovedLinesCount(d)
        added_lines_count == AddedLinesCount(d)
        changed_lines_total == removed_lines_count + added_lines_count
        compile_gate == IF compile_gate_on THEN CheckCompileGate(d) ELSE CompileGateDisabled
        fail_reasons ==
            Opt(d = "", "empty_diff")
            \o Opt(files_changed > max_files_changed, "too_many_files")
            \o Opt(max_changed_lines > 0 /\ changed_lines_total > max_changed_lines,
                   "too_many_changed_lines")
            \o Opt(removed_lines_count > catastrophic_deletion_floor
                   /\ added_lines_count > 0
                   /\ removed_lines_count > catastrophic_deletion_ratio * added_lines_count,
                   "catastrophic_deletion")
            \o Opt(f.dup_max >= duplicate_line_threshold, "repetitive_code")
            \o Opt(f.placeholder, "placeholder_code")
            \o Opt(compile_gate.compile_failed_files # <<>>, "syntax_compile_failed")
        warn_reasons ==
            Opt(f.sig_change, "potential_signature_change")
            \o Opt(compile_gate.compile_skipped_preexisting > 0, "compile_preexisting_failures")
        metrics == [files_changed |-> files_changed, added_lines |-> added_lines_count,
                    removed_lines |-> removed_lines_count,
                    changed_lines_total |-> changed_lines_total,
                    compile_failed |-> compile_gate.compile_failed]
    IN  IF fail_reasons # <<>>
        THEN [valid |-> FALSE, severity |-> "fail", reason |-> fail_reasons,
              fail_reasons |-> fail_reasons, warn_reasons |-> warn_reasons,
              metrics |-> metrics, compile_gate |-> compile_gate, diff |-> d]
        ELSE IF warn_reasons # <<>>
        THEN [valid |-> TRUE, severity |-> "warn", reason |-> warn_reasons,
              fail_reasons |-> fail_reasons, warn_reasons |-> warn_reasons,
              metrics |-> metrics, compile_gate |-> compile_gate, diff |-> d]
        ELSE [valid |-> TRUE, severity |-> "info", reason |-> <<"ok">>,
              fail_reasons |-> fail_reasons, warn_reasons |-> warn_reasons,
              metrics |-> metrics, compile_gate |-> compile_gate, diff |-> d]

\* _extract_patch's return value: "" when the gate rejects, else the diff.
ExtractPatchLeaky(validation) == validation.diff
ExtractPatch(validation) ==
    IF ~validation.valid THEN "" ELSE validation.diff

\* ------------------------------------------------------------- test gate
\* What one pytest child does: it exits with counters parsed from its
\* output by _parse_pytest_counts (0 when a counter is absent) and a return
\* code, it outlives the timeout, or it cannot be started.  The return code
\* is read only when both counters are 0; otherwise it is pytest's own: 0
\* without failures, 1 with.
PytestOutcomes(n) ==
    {o \in [kind : {"exit"}, passed : 0..(n + 1), failed : 0..(n + 1),
            returncode : {0, 1}] :
        \/ o.passed + o.failed = 0
        \/ o.returncode = (IF o.failed = 0 THEN 0 ELSE 1)}
    \cup {[kind |-> "timeout", passed |-> 0, failed |-> 0, returncode |-> 0],
          [kind |-> "error", passed |-> 0, failed |-> 0, returncode |-> 0]}

\* _parse_pytest_counts on an output whose text shows the counters of text
\* (None for a counter the text does not show): an absent counter is 0.
ParsePytestCounts(text) ==
    [passed |-> IF IsNone(text.passed) THEN 0 ELSE Val(text.passed),
     failed |-> IF IsNone(text.failed) THEN 0 ELSE Val(text.failed)]

\* A pytest child that exited with the code returncode after printing text.
Exited(text, returncode) ==
    [kind |-> "exit", passed |-> ParsePytestCounts(text).passed,
     failed |-> ParsePytestCounts(text).failed, returncode |-> returncode]

\* Lines 772-774: the result of a pytest run of n tests that outlived its
\* timeout.
TimeoutResultNoFailure(n) ==
    [passed |-> 0, failed |-> 0, returncode |-> pytest_timeout_returncode]
TimeoutResult(n) ==
    [passed |-> 0, failed |-> n, returncode |-> pytest_timeout_returncode]

\* _run_pytest_subset on n requested tests.
RunPytestSubset(n, o) ==
    IF o.kind = "timeout"
    THEN TimeoutResult(n)
    ELSE IF o.kind = "error"
    THEN [passed |-> 0, failed |-> n, returncode |-> 1]
    ELSE LET none == o.passed + o.failed = 0
             passed == IF none /\ o.returncode = 0 THEN n ELSE o.passed
             failed == IF none /\ o.returncode # 0 THEN Max(1, n) ELSE o.failed
         IN  [passed |-> Min(passed, n), failed |-> Min(Max(failed, 0), n),
              returncode |-> o.returncode]

\* `if fail_to_pass_tests:` and `if smoke_tests:` -- a subset is run when it
\* is not empty.
RunsSubsetAlways(n) == TRUE
RunsSubset(n) == n > 0

\* Lines 747-748: clean_resolution, from the metrics gathered so far.
CleanResolutionLax(m) == Some(m.f2p_all_passed)
CleanResolution(m) ==
    IF m.f2p_all_passed /\ ~IsNone(m.p2p_smoke_failures)
    THEN Some(Val(m.p2p_smoke_failures) = 0)
    ELSE None

\* _evaluate_candidate.  A pass rate is the pair <<passed, total>>.
EvaluateCandidate(f2p_n, p2p_n, require_test_checks, o1, o2) ==
    LET skeleton == [f2p_total |-> f2p_n, f2p_passed |-> None, f2p_failed |-> None,
                     f2p_pass_rate |-> None, f2p_all_passed |-> FALSE,
                     p2p_smoke_total |-> None, p2p_smoke_failures |-> None,
                     clean_resolution |-> None]
        f2p == RunPytestSubset(f2p_n, o1)
        m1 == IF RunsSubset(f2p_n)
              THEN [skeleton EXCEPT !.f2p_passed = Some(f2p.passed),
                                    !.f2p_failed = Some(f2p.failed),
                                    !.f2p_pass_rate = Some(<<f2p.passed, Max(f2p_n, 1)>>),
                                    !.f2p_all_passed = (f2p.failed = 0)]
              ELSE skeleton
        smoke_n == Min(p2p_n, p2p_smoke_count)
        p2p == RunPytestSubset(smoke_n, o2)
        m2 == IF RunsSubset(smoke_n)
              THEN [m1 EXCEPT !.p2p_smoke_total = Some(smoke_n),
                              !.p2p_smoke_failures = Some(p2p.failed)]
              ELSE m1
    IN  IF ~require_test_checks THEN skeleton
        ELSE [m2 EXCEPT !.clean_resolution = CleanResolution(m2)]

\* ---------------------------------------------------------------- scoring
\* _score_candidate: (non_empty, f2p_score, -p2p_penalty, -loop_penalty,
\* -patch_chars); f2p_score is kept as the fraction <<num, den>>.
ScoreCandidateRateFirst(c) ==
    LET patch_chars == DiffInfo(c.prediction).chars
    IN  <<0,
          IF IsNone(c.f2p_pass_rate) THEN <<0, 1>> ELSE Val(c.f2p_pass_rate),
          -(IF IsNone(c.p2p_smoke_failures) THEN 0 ELSE Val(c.p2p_smoke_failures)),
          -(IF c.loop_abort_reason # <<>> THEN 1 ELSE 0),
          -patch_chars>>
ScoreCandidate(c) ==
    LET patch_chars == DiffInfo(c.prediction).chars
    IN  <<IF patch_chars > 0 THEN 1 ELSE 0,
          IF IsNone(c.f2p_pass_rate) THEN <<0, 1>> ELSE Val(c.f2p_pass_rate),
          -(IF IsNone(c.p2p_smoke_failures) THEN 0 ELSE Val(c.p2p_smoke_failures)),
          -(IF c.loop_abort_reason # <<>> THEN 1 ELSE 0),
          -patch_chars>>

\* Python's tuple comparison s > t on two score tuples.
FracLT(a, b) == a[1] * b[2] < b[1] * a[2]
FracEQ(a, b) == a[1] * b[2] = b[1] * a[2]
ElemLT(i, s, t) == IF i = 2 THEN FracLT(s[2], t[2]) ELSE s[i] < t[i]
ElemEQ(i, s, t) == IF i = 2 THEN FracEQ(s[2], t[2]) ELSE s[i] = t[i]
TupleGT(s, t) ==
    \E i \in 1..5 : ElemLT(i, t, s) /\ \A j \in 1..(i - 1) : ElemEQ(j, s, t)

\* The update test of the best candidate: best_score is None or score > best_score.
IsNewBestLatest(score, best_score) == TRUE
IsNewBest(score, best_score) ==
    IsNone(best_score) \/ TupleGT(score, Val(best_score))

\* --------------------------------------------------------------- commands
\* A command is the sequence of its whitespace-separated tokens; <<>> is
\* the empty string (no command seen yet).
NoCmd == <<>>
SedCmd == <<"sed", "-i", "s/a/b/", "f.py">>
GrepCmd == <<"grep", "-rn", "foo", ".">>
LsCmd == <<"ls", "-la">>
PyImportCmd == <<"python3", "-c", "import", "pkg">>
SubmitCmd == <<"echo", "COMPLETE_TASK_AND_SUBMIT_FINAL_OUTPUT">>
Numerals == {"0", "1", "2", "10", "20"}
SearchCmds == {"find", "grep", "rg", "ls"}

HasAdjacent(cmd, a, b) ==
    \E i \in 1..(Len(cmd) - 1) : cmd[i] = a /\ cmd[i + 1] = b
HasToken(cmd, a) == \E i \in 1..Len(cmd) : cmd[i] = a

\* _normalize_command: whitespace collapsed, whole numbers replaced by <N>.
NormalizeCommand(cmd) ==
    [i \in 1..Len(cmd) |-> IF cmd[i] \in Numerals THEN "<N>" ELSE cmd[i]]

\* base_cmd = cmd.split()[0] if cmd.split() else ""
BaseCmd(cmd) == IF cmd = <<>> THEN "" ELSE cmd[1]

\* ---------------------------------------------------------------- messages
\* A user message, by what the wrapper looks for in it: the format-error
\* phrase, the words "timed out", and the <returncode> tag.
UserContent(fe, to, rc) == [format_error |-> fe, timed_out |-> to, returncode |-> rc]
TaskContent == UserContent(FALSE, FALSE, None)
ExitContent == UserContent(FALSE, FALSE, None)
FormatErrorContent == UserContent(TRUE, FALSE, None)
TimeoutContent == UserContent(FALSE, TRUE, None)
ObservationContent(rc) == UserContent(FALSE, FALSE, Some(rc))

\* _extract_return_code: 0 when the tag is absent.
ExtractReturnCode(content) ==
    IF IsNone(content.returncode) THEN 0 ELSE Val(content.returncode)

ImportWarning == "STOP importing package modules"
SedWarning == "macOS sed requires sed -i ''"
AbortWarning == "Trajectory aborted due to repeated low-signal behavior"

\* ----------------------------------------------------- loop detection state
\* diff_state of lines 514-523.  diff_seen and err_seen are not in the
\* code's dict: they record that a user message of this run found a
\* non-empty diff, and that one found `git diff HEAD` not runnable.
InitDiffState(sig) ==
    [prev_sig |-> sig, seen_nonempty |-> FALSE, no_diff_streak |-> 0,
     diff_seen |-> FALSE, err_seen |-> FALSE,
     search_streak |-> 0, failed_cmd_streak |-> 0, failed_cmd_norm |-> <<>>,
     sed_fail_streak |-> 0]

LastN(s, n) == IF Len(s) <= n THEN s ELSE SubSeq(s, Len(s) - n + 1, Len(s))

\* `if current_sig != "EMPTY": diff_state["seen_nonempty"] = True`
\* (lines 596-597).
SeenNonempty(seen_before, current_sig) == seen_before \/ current_sig # EMPTY

\* `if diff_state["failed_cmd_streak"] >= self.repeated_fail_limit` (line 568)
RepeatedFailHitLate(streak) == streak > repeated_fail_limit
RepeatedFailHit(streak) == streak >= repeated_fail_limit

\* Line 580: the search streak has reached its limit.
SearchStreakHitLate(streak) == streak > search_streak_limit
SearchStreakHit(streak) == streak >= search_streak_limit

\* `and not abort_reason` (lines 580, 592, 602): a condition sets the
\* reason only when no earlier one has.
NoReasonYetIgnored(reason) == TRUE
NoReasonYet(reason) == reason = <<>>

\* The detection block of logging_add_message for one user message (policy
\* warn or strict): the new diff_state, the abort reason (<<>> for "") and
\* the warnings, in the order the code appends them.
Detect(ds, content, cmd, history, current_sig, darwin) ==
    LET rc == ExtractReturnCode(content)
        cmd_norm == NormalizeCommand(cmd)
        base_cmd == BaseCmd(cmd)
        failing == rc # 0 /\ cmd_norm # <<>>
        failed_streak ==
            IF failing
            THEN IF ds.failed_cmd_norm = cmd_norm THEN ds.failed_cmd_streak + 1 ELSE 1
            ELSE 0
        failed_norm == IF failing THEN cmd_norm ELSE <<>>
        abort1 == IF failing /\ RepeatedFailHit(failed_streak)
                  THEN <<"repeated_failing_command", base_cmd, failed_streak>>
                  ELSE <<>>
        search == IF base_cmd \in SearchCmds THEN ds.search_streak + 1 ELSE 0
        abort2 == IF SearchStreakHit(search) /\ NoReasonYet(abort1)
                  THEN <<"search_only_streak", search>>
                  ELSE abort1
        sed_failing == HasAdjacent(cmd, "sed", "-i") /\ rc # 0
        sed == IF sed_failing THEN ds.sed_fail_streak + 1 ELSE 0
        warn_sed == Opt(sed_failing /\ ~HasAdjacent(cmd, "-i", "''") /\ darwin, SedWarning)
        abort3 == IF sed_failing /\ sed >= sed_fail_limit /\ NoReasonYet(abort2)
                  THEN <<"sed_fail_streak", sed>>
                  ELSE abort2
        seen == SeenNonempty(ds.seen_nonempty, current_sig)
        no_diff == IF seen
                   THEN IF current_sig = ds.prev_sig THEN ds.no_diff_streak + 1 ELSE 0
                   ELSE ds.no_diff_streak
        abort4 == IF seen /\ no_diff >= no_diff_streak_limit /\ NoReasonYet(abort3)
                  THEN <<"no_diff_streak", no_diff>>
                  ELSE abort3
        recent == LastN(history, 3)
        IsImport(c) == HasAdjacent(c, "python3", "-c") /\ HasToken(c, "import")
        warn_import == Opt(Len(SelectSeq(recent, IsImport)) >= 2, ImportWarning)
        warn_abort == Opt(abort4 # <<>>, AbortWarning)
    IN  [diff_state |-> [prev_sig |-> current_sig, seen_nonempty |-> seen,
                         diff_seen |-> ds.diff_seen \/ current_sig \notin {EMPTY, DIFF_ERR},
                         err_seen |-> ds.err_seen \/ current_sig = DIFF_ERR,
                         no_diff_streak |-> no_diff, search_streak |-> search,
                         failed_cmd_streak |-> failed_streak,
                         failed_cmd_norm |-> failed_norm, sed_fail_streak |-> sed],
         abort_reason |-> abort4,
         loop_warnings |-> warn_sed \o warn_import \o warn_abort]

\* Whether the wrapper runs the detection block at all for a user message.
DetectsUnderOff(policy) == TRUE
Detects(policy) == policy # "off"

\* Whether the wrapper raises LoopAbortError after forwarding a user message.
RaisesOnAbortAlways(policy, reason) == reason # <<>>
RaisesOnAbortNever(policy, reason) == FALSE
RaisesOnAbort(policy, reason) == reason # <<>> /\ policy = "strict"

\* ------------------------------------------------------------------ state
VARIABLES
    cfg,                \* the run configuration and the task (immutable)
    pc,                 \* where execute_code_cli stands
    attempt_idx,        \* the for loop's attempt_idx (0 before the first)
    repo_path,          \* None, or Some(k): the clone made by attempt k
    dirs,               \* the temporary directories that exist on disk
    tree,               \* the working tree's diff against HEAD
    attempt_summaries,
    best_candidate,
    best_score,
    task,               \* the task text handed to the next agent run
    fix_round,
    compile_fix_round,
    run_result,
    patch,
    test_metrics,
    last_patch_gate,
    last_patch_gate_decision,   \* self._last_patch_gate_decision
    graphrag_meta,
    stop,               \* the for loop was left by break
    exc,                \* the exception in flight in the try block
    prediction,         \* the returned dict, once returned
    blocked_on,         \* the child process waited for without a deadline
    agent_pc,           \* where the agent's run() stands
    n_calls,            \* agent.model.n_calls
    retry,              \* the retry loop's index in _run_agent_with_controls
    last_cmd,
    command_history,
    loop_abort_reason,
    diff_state,
    format_errors,
    timeouts,
    forwarded,          \* the last message given to original_add_message
    candidates,         \* history: every candidate built, in order
    started,            \* history: the attempt indexes started, in order
    runs,               \* history: agent runs started in this attempt
    calls,              \* history: model calls made in this attempt
    previous,           \* what an earlier call on the same task returned
    git_steps           \* the git children _setup_repository has just run

ovars == <<cfg, pc, attempt_idx, repo_path, dirs, tree, attempt_summaries,
           best_candidate, best_score, task, fix_round, compile_fix_round,
           run_result, patch, test_metrics, last_patch_gate,
           last_patch_gate_decision, graphrag_meta, stop, exc, prediction,
           blocked_on, candidates, started, runs, calls, previous, git_steps>>
dvars == <<agent_pc, n_calls, retry, last_cmd, command_history,
           loop_abort_reason, diff_state, format_errors, timeouts, forwarded>>
vars == <<ovars, dvars>>

\* {} as read through .get(...) with the code's defaults.
EmptyGate ==
    [valid |-> FALSE, severity |-> "", reason |-> <<>>, fail_reasons |-> <<>>,
     warn_reasons |-> <<>>,
     metrics |-> [files_changed |-> 0, added_lines |-> 0, removed_lines |-> 0,
                  changed_lines_total |-> 0, compile_failed |-> 0],
     compile_gate |-> CompileGateDisabled, diff |-> ""]
EmptyRunResult ==
    [status |-> "unknown", steps |-> 0, format_errors |-> 0, timeouts |-> 0,
     loop_abort_reason |-> <<>>, elapsed |-> 0]
EmptyMetrics ==
    [f2p_total |-> 0, f2p_passed |-> None, f2p_failed |-> None,
     f2p_pass_rate |-> None, f2p_all_passed |-> FALSE, p2p_smoke_total |-> None,
     p2p_smoke_failures |-> None, clean_resolution |-> None]
\* graphrag_meta of lines 268-280; impacted_raised stands for the log line
\* of line 386, written when the impacted-test call raised in this attempt.
InitGraphragMeta ==
    [graph_built |-> FALSE, impacted_failed |-> 0, impacted_raised |-> FALSE]
NoMessage == [role |-> "", warnings |-> <<>>, body |-> <<>>]
NoTask == [kind |-> "none"]

\* The driver's locals before a run and after it (they die with the call).
DriverIdle ==
    /\ agent_pc' = "idle"
    /\ n_calls' = 0
    /\ retry' = 0
    /\ last_cmd' = NoCmd
    /\ command_history' = <<>>
    /\ loop_abort_reason' = <<>>
    /\ diff_state' = InitDiffState(EMPTY)
    /\ format_errors' = 0
    /\ timeouts' = 0
    /\ forwarded' = NoMessage

\* ------------------------------------------------------------------- tasks
\* _format_task / _format_retry_task: the base task, and from attempt 2 on
\* the retry guidance with the reasons of the last summarised attempt.
FormatRetryTask(idx, summaries) ==
    IF idx <= 1
    THEN [kind |-> "initial"]
    ELSE IF summaries = <<>>
    THEN [kind |-> "retry", retry_idx |-> idx, gate_reason |-> <<>>,
          loop_reason |-> <<>>, syntax_hint |-> FALSE]
    ELSE LET prev == summaries[Len(summaries)]
         IN  [kind |-> "retry", retry_idx |-> idx,
              gate_reason |-> prev.patch_gate_reason,
              loop_reason |-> prev.loop_abort_reason,
              syntax_hint |-> HasToken(prev.patch_gate_reason, "syntax_compile_failed")]
\* `for file_path in failed_files[:10]` (line 854): the files a
\* compile-repair task lists.
NamedFilesNone(files) == <<>>
NamedFiles(files) ==
    IF Len(files) <= compile_task_file_limit THEN files
    ELSE SubSeq(files, 1, compile_task_file_limit)
FormatCompileFailureTask(compile_gate) ==
    [kind |-> "compile_repair", files |-> NamedFiles(compile_gate.compile_failed_files)]
FormatTestFailureTask(metrics) ==
    [kind |-> "test_failure", f2p_passed |-> metrics.f2p_passed,
     f2p_total |-> metrics.f2p_total]
FormatGraphragFailureTask == [kind |-> "graphrag_failure"]

\* ------------------------------------------------------------ configuration
Config(pol, ma, st, md, mf, gate, mc, f, p, dw) ==
    [loop_policy |-> pol, max_attempts |-> ma, step_limit |-> st, mode |-> md,
     max_fix_iterations |-> mf, patch_compile_gate |-> gate,
     max_compile_fix_iterations |-> mc, f2p_n |-> f, p2p_n |-> p, darwin |-> dw,
     flaky |-> FALSE]

\* The same run against a model backend that drops connections.
WithFlakyBackend(c) == [c EXCEPT !.flaky = TRUE]

Vanilla == [tdd_mode |-> FALSE, graphrag_enabled |-> FALSE]
Tdd == [tdd_mode |-> TRUE, graphrag_enabled |-> FALSE]
Graphrag == [tdd_mode |-> FALSE, graphrag_enabled |-> TRUE]
Modes == {Vanilla, Tdd, Graphrag}
Policies == {"off", "warn", "strict"}

\* The step limit of the orchestration runs: the fewest steps in which a
\* strict-policy abort can happen.
OrchSteps == sed_fail_limit

\* The configurations explored: up to MaxAttempts attempts without test
\* checks; one attempt and two with test checks; one attempt with every
\* repair round; one attempt with a compile-repair round against a flaky
\* backend.
Configs ==
    {Config(pol, ma, OrchSteps, Vanilla, 0, gate, 0, 0, 0, FALSE) :
        pol \in Policies, ma \in 1..MaxAttempts, gate \in BOOLEAN}
    \cup {Config("strict", ma, OrchSteps, Tdd, 0, TRUE, 0, f, MaxTests, FALSE) :
        ma \in {1, 2}, f \in {0, MaxTests}}
    \cup {Config("strict", ma, OrchSteps, Tdd, 0, TRUE, 0, 0, 0, FALSE) : ma \in {1, 2}}
    \cup {Config(pol, 1, OrchSteps, Tdd, 1, TRUE, 1, MaxTests, MaxTests, FALSE) :
        pol \in {"warn", "strict"}}
    \cup {Config("strict", 1, OrchSteps, Graphrag, 1, TRUE, 1, MaxTests, 0, FALSE)}
    \cup {WithFlakyBackend(Config("strict", 1, OrchSteps, Vanilla, 0, TRUE, 1, 0, 0, FALSE))}

\* The configurations of the driver runs: one attempt, no repair round, the
\* agent free to use its whole alphabet for MaxSteps steps.
DriverConfigs ==
    {WithFlakyBackend(Config(pol, 1, MaxSteps, Vanilla, 0, TRUE, 0, 0, 0, dw)) :
        pol \in Policies, dw \in BOOLEAN}

RequireTestChecks == cfg.mode.tdd_mode \/ cfg.mode.graphrag_enabled
MaxFixRounds == IF RequireTestChecks THEN cfg.max_fix_iterations ELSE 0
MaxCompileFixRounds ==
    IF cfg.patch_compile_gate THEN cfg.max_compile_fix_iterations ELSE 0

\* The state on entry to execute_code_cli, on an interface just built.
InitWith(c) ==
    /\ cfg = c
    /\ pc = "for"
    /\ attempt_idx = 0
    /\ repo_path = None
    /\ dirs = {}
    /\ tree = ""
    /\ attempt_summaries = <<>>
    /\ best_candidate = None
    /\ best_score = None
    /\ task = NoTask
    /\ fix_round = 0
    /\ compile_fix_round = 0
    /\ run_result = EmptyRunResult
    /\ patch = ""
    /\ test_metrics = EmptyMetrics
    /\ last_patch_gate = EmptyGate
    /\ last_patch_gate_decision = EmptyGate
    /\ graphrag_meta = InitGraphragMeta
    /\ stop = FALSE
    /\ exc = None
    /\ prediction = None
    /\ blocked_on = None
    /\ agent_pc = "idle"
    /\ n_calls = 0
    /\ retry = 0
    /\ last_cmd = NoCmd
    /\ command_history = <<>>
    /\ loop_abort_reason = <<>>
    /\ diff_state = InitDiffState(EMPTY)
    /\ format_errors = 0
    /\ timeouts = 0
    /\ forwarded = NoMessage
    /\ candidates = <<>>
    /\ started = <<>>
    /\ runs = 0
    /\ calls = 0
    /\ previous = None
    /\ git_steps = <<>>

Init == \E c \in Configs : InitWith(c)

\* A wait on a child process started without a timeout: when the child
\* never exits, subprocess.run never returns.
Block(child) ==
    /\ pc' = "blocked"
    /\ blocked_on' = Some(child)

\* for attempt_idx in range(1, self.max_attempts + 1)
LoopContinuesOneMore(idx, max_attempts) == idx <= max_attempts
LoopContinues(idx, max_attempts) == idx < max_attempts

\* The loop starts its next iteration (lines 261-284).
StartAttempt ==
    /\ pc = "for"
    /\ ~stop
    /\ LoopContinues(attempt_idx, cfg.max_attempts)
    /\ attempt_idx' = attempt_idx + 1
    /\ repo_path' = None
    /\ graphrag_meta' = InitGraphragMeta
    /\ started' = Append(started, attempt_idx + 1)
    /\ runs' = 0
    /\ calls' = 0
    /\ pc' = "setup"
    /\ UNCHANGED <<cfg, dirs, tree, attempt_summaries, best_candidate, best_score,
                   task, fix_round, compile_fix_round, run_result, patch,
                   test_metrics, last_patch_gate, last_patch_gate_decision, stop,
                   exc, prediction, blocked_on, candidates, previous, git_steps>>
    /\ UNCHANGED dvars

\* The loop ends: by break, or with the range exhausted.
ExitLoop ==
    /\ pc = "for"
    /\ stop \/ ~LoopContinues(attempt_idx, cfg.max_attempts)
    /\ pc' = "after_loop"
    /\ UNCHANGED <<cfg, attempt_idx, repo_path, dirs, tree, attempt_summaries,
                   best_candidate, best_score, task, fix_round, compile_fix_round,
                   run_result, patch, test_metrics, last_patch_gate,
                   last_patch_gate_decision, graphrag_meta, stop, exc, prediction,
                   blocked_on, candidates, started, runs, calls, previous, git_steps>>
    /\ UNCHANGED dvars

\* What the git children of _setup_repository do: each exits with code 0,
\* exits with another code, or never exits.
ChildResults == {"ok", "fail", "hang"}
SetupOutcomes ==
    [shallow : ChildResults, full : ChildResults, fetch : ChildResults,
     checkout : ChildResults]

\* The git children _setup_repository runs for the results o, in order,
\* each with its result: the full clone only after a failed shallow clone,
\* nothing after a child that never exits or whose failure is raised.
GitStep(name, result) == [step |-> name, result |-> result]
StepsRun(o) ==
    LET clone == <<GitStep("clone --depth 1", o.shallow)>>
        cloned == IF o.shallow = "fail"
                  THEN Append(clone, GitStep("clone", o.full)) ELSE clone
        fetched == Append(cloned, GitStep("fetch --unshallow", o.fetch))
    IN  IF o.shallow = "hang" THEN clone
        ELSE IF o.shallow = "fail" /\ o.full # "ok" THEN cloned
        ELSE IF o.fetch = "hang" THEN fetched
        ELSE Append(fetched, GitStep("checkout", o.checkout))

\* _setup_repository's result for the children's results o: the clone is
\* returned, CalledProcessError is raised (check=True on the full clone and
\* on the checkout), or a wait never ends.
SetupResultUnchecked(o) ==
    IF "hang" \in {o.shallow, o.fetch, o.checkout} THEN "hang" ELSE "ok"
SetupResult(o) ==
    IF o.shallow = "hang" THEN "hang"
    ELSE IF o.shallow = "fail" /\ o.full = "hang" THEN "hang"
    ELSE IF o.shallow = "fail" /\ o.full = "fail" THEN "raise"
    ELSE IF o.fetch = "hang" THEN "hang"
    ELSE IF o.checkout = "hang" THEN "hang"
    ELSE IF o.checkout = "fail" THEN "raise"
    ELSE "ok"

\* Lines 285-319: the clone, the optional graph build (whose failure is
\* only logged), the task text and the repair-loop counters.
SetupRepository(o, built) ==
    /\ pc = "setup"
    /\ dirs' = dirs \cup {attempt_idx}
    /\ CASE SetupResult(o) = "hang" ->
              /\ Block("git")
              /\ UNCHANGED <<repo_path, tree, graphrag_meta, task, fix_round,
                             compile_fix_round, run_result, patch, test_metrics,
                             last_patch_gate, exc>>
         [] SetupResult(o) = "raise" ->
              /\ exc' = Some("CalledProcessError")
              /\ pc' = "except"
              /\ UNCHANGED <<repo_path, tree, graphrag_meta, task, fix_round,
                             compile_fix_round, run_result, patch, test_metrics,
                             last_patch_gate, blocked_on>>
         [] SetupResult(o) = "ok" ->
              /\ repo_path' = Some(attempt_idx)
              /\ tree' = ""
              /\ graphrag_meta' = [graphrag_meta EXCEPT
                                     !.graph_built = cfg.mode.graphrag_enabled /\ built]
              /\ task' = FormatRetryTask(attempt_idx, attempt_summaries)
              /\ fix_round' = 0
              /\ compile_fix_round' = 0
              /\ run_result' = EmptyRunResult
              /\ patch' = ""
              /\ test_metrics' = EmptyMetrics
              /\ last_patch_gate' = EmptyGate
              /\ pc' = "run_start"
              /\ UNCHANGED <<exc, blocked_on>>
    /\ UNCHANGED <<cfg, attempt_idx, attempt_summaries, best_candidate, best_score,
                   last_patch_gate_decision, stop, prediction, candidates, started,
                   runs, calls, previous>>
    /\ git_steps' = StepsRun(o)
    /\ UNCHANGED dvars

\* ------------------------------------------------------------ agent driver
\* What no step of an agent run changes.
attempt_frame ==
    <<cfg, attempt_idx, repo_path, dirs, attempt_summaries, best_candidate,
      best_score, task, fix_round, compile_fix_round, patch, test_metrics,
      last_patch_gate, last_patch_gate_decision, graphrag_meta, stop,
      prediction, candidates, started>>

\* Top of `while True` (line 322) and the head of _run_agent_with_controls
\* (lines 511-634): a fresh agent, fresh detection state with prev_sig taken
\* from the working tree, then agent.run(task) is entered.
RunStart(child) ==
    /\ pc = "run_start"
    /\ runs' = runs + 1
    /\ git_steps' = <<>>
    /\ UNCHANGED <<calls, previous>>
    /\ IF child = "hang"
       THEN /\ Block("git diff")
            /\ UNCHANGED dvars
       ELSE /\ pc' = "agent"
            /\ agent_pc' = "system"
            /\ n_calls' = 0
            /\ retry' = 0
            /\ last_cmd' = NoCmd
            /\ command_history' = <<>>
            /\ loop_abort_reason' = <<>>
            /\ diff_state' = InitDiffState(DiffSignature(tree, child))
            /\ format_errors' = 0
            /\ timeouts' = 0
            /\ forwarded' = NoMessage
            /\ UNCHANGED blocked_on
    /\ UNCHANGED <<tree, run_result, exc>>
    /\ UNCHANGED attempt_frame

\* The agent built by _create_agent with step_limit makes another model
\* call only while it has made fewer than step_limit.
StepAllowedOneMore(calls_made, step_limit) == calls_made <= step_limit
StepAllowed(calls_made, step_limit) == calls_made < step_limit

\* logging_add_message("system", ...): forwarded as is.
AddSystemMessage ==
    /\ pc = "agent"
    /\ agent_pc = "system"
    /\ forwarded' = [role |-> "system", warnings |-> <<>>, body |-> <<"system">>]
    /\ agent_pc' = "task"
    /\ UNCHANGED <<n_calls, retry, last_cmd, command_history, loop_abort_reason,
                   diff_state, format_errors, timeouts>>
    /\ UNCHANGED <<pc, tree, run_result, exc, blocked_on, runs, calls, previous, git_steps>>
    /\ UNCHANGED attempt_frame

\* logging_add_message("assistant", content) after a model call: the first
\* fenced bash block, when there is one, becomes last_cmd.  The model keeps
\* the last three commands of command_history, all the wrapper ever reads.
AddAssistantMessage(cmd) ==
    /\ pc = "agent"
    /\ agent_pc = "model"
    /\ StepAllowed(n_calls, cfg.step_limit)
    /\ n_calls' = n_calls + 1
    /\ IF cmd # NoCmd
       THEN /\ last_cmd' = cmd
            /\ command_history' = LastN(Append(command_history, cmd), 3)
       ELSE UNCHANGED <<last_cmd, command_history>>
    /\ forwarded' = [role |-> "assistant", warnings |-> <<>>, body |-> cmd]
    /\ agent_pc' = IF cmd = NoCmd THEN "format_error"
                   ELSE IF cmd = SubmitCmd THEN "submit"
                   ELSE "execute"
    /\ UNCHANGED <<retry, loop_abort_reason, diff_state, format_errors, timeouts>>
    /\ UNCHANGED <<pc, tree, run_result, exc, blocked_on, runs, previous, git_steps>>
    /\ calls' = calls + 1
    /\ UNCHANGED attempt_frame

\* logging_add_message("user", content), lines 540-632, with the working
\* tree's diff d at that moment; `next` is where the agent goes on when the
\* wrapper returns.  child is what the `git diff` of the signature does.
\* `content = warning_text + "\n" + content` (lines 624-627) and
\* `original_add_message(role, content, **kwargs)` (lines 552, 629): the
\* user message forwarded, the warnings ahead of the content it came with.
ForwardedBare(loop_warnings, content) ==
    [role |-> "user", warnings |-> <<>>, body |-> content]
Forwarded(loop_warnings, content) ==
    [role |-> "user", warnings |-> loop_warnings, body |-> content]

HandleUser(content, d, next, child) ==
    /\ format_errors' = IF content.format_error THEN format_errors + 1 ELSE format_errors
    /\ timeouts' = IF ~content.format_error /\ content.timed_out
                   THEN timeouts + 1 ELSE timeouts
    /\ IF ~Detects(cfg.loop_policy)
       THEN /\ forwarded' = Forwarded(<<>>, content)
            /\ agent_pc' = next
            /\ UNCHANGED <<diff_state, loop_abort_reason, pc, blocked_on>>
       ELSE IF child = "hang"
       THEN /\ Block("git diff")
            /\ UNCHANGED <<forwarded, agent_pc, diff_state, loop_abort_reason>>
       ELSE LET det == Detect(diff_state, content, last_cmd, command_history,
                              DiffSignature(d, child), cfg.darwin)
                reason == IF det.abort_reason # <<>> THEN det.abort_reason
                          ELSE loop_abort_reason
            IN  /\ diff_state' = det.diff_state
                /\ loop_abort_reason' = reason
                /\ forwarded' = Forwarded(det.loop_warnings, content)
                /\ agent_pc' = IF RaisesOnAbort(cfg.loop_policy, reason)
                               THEN "aborted" ELSE next
                /\ UNCHANGED <<pc, blocked_on>>
    /\ UNCHANGED <<n_calls, retry, last_cmd, command_history>>
    /\ UNCHANGED <<run_result, exc, runs, calls, previous, git_steps>>
    /\ UNCHANGED attempt_frame

\* The instance message that opens every run of the agent.
AddTaskMessage(child) ==
    /\ pc = "agent"
    /\ agent_pc = "task"
    /\ HandleUser(TaskContent, tree, "model", child)
    /\ UNCHANGED tree

\* The diffs an agent's command can leave in the working tree.
AgentDiffs == {"", "d_ok", "d_syn"}
TreeAfter(cmd, d) == IF BaseCmd(cmd) \in SearchCmds THEN {d} ELSE DiffIds

\* The command ran: its observation, with the return code rc, or the
\* timeout message when rc is None.
AddObservation(rc, d, child) ==
    /\ pc = "agent"
    /\ agent_pc = "execute"
    /\ d \in TreeAfter(last_cmd, tree)
    /\ tree' = d
    /\ HandleUser(IF IsNone(rc) THEN TimeoutContent ELSE ObservationContent(Val(rc)),
                  d, "model", child)

\* The assistant message held no single action: the format-error message.
AddFormatError(child) ==
    /\ pc = "agent"
    /\ agent_pc = "format_error"
    /\ HandleUser(FormatErrorContent, tree, "model", child)
    /\ UNCHANGED tree

\* The agent ends its run: the submit command ran, or the step limit is
\* hit.  The exit message is added as a user message before run() returns.
AddExitMessage(child) ==
    /\ pc = "agent"
    /\ \/ agent_pc = "submit" /\ HandleUser(ExitContent, tree, "Submitted", child)
       \/ /\ agent_pc = "model"
          /\ ~StepAllowed(n_calls, cfg.step_limit)
          /\ HandleUser(ExitContent, tree, "LimitsExceeded", child)
    /\ UNCHANGED tree

\* Which exceptions of agent.run the retry loop retries (lines 647-653).
Retryable(kind) == kind \in {"ConnectionError", "OSError"}
\* `if attempt < max_retries` (line 648), attempt being the retries made.
RetriesLeftOneMore(made) == made <= max_retries
RetriesLeft(made) == made < max_retries

\* The model backend raises inside agent.run: a transient error is retried
\* after a pause while retries remain; anything else, and the last
\* transient error, leaves _run_agent_with_controls as an exception.
ModelError(kind) ==
    /\ pc = "agent"
    /\ agent_pc = "model"
    /\ StepAllowed(n_calls, cfg.step_limit)
    /\ IF Retryable(kind) /\ RetriesLeft(retry)
       THEN /\ retry' = retry + 1
            /\ agent_pc' = "system"
            /\ UNCHANGED <<n_calls, last_cmd, command_history, loop_abort_reason,
                           diff_state, format_errors, timeouts, forwarded>>
            /\ UNCHANGED <<pc, exc>>
       ELSE /\ exc' = Some(kind)
            /\ pc' = "except"
            /\ DriverIdle
    /\ UNCHANGED <<tree, run_result, blocked_on, runs, calls, previous, git_steps>>
    /\ UNCHANGED attempt_frame

\* agent.run returned, or LoopAbortError reached the retry loop (lines
\* 641-670): the run's result.
RunEnd(elapsed) ==
    /\ pc = "agent"
    /\ agent_pc \in {"aborted", "Submitted", "LimitsExceeded"}
    /\ run_result' = [status |-> IF agent_pc = "aborted" THEN "LoopAborted" ELSE agent_pc,
                      steps |-> n_calls,
                      format_errors |-> format_errors,
                      timeouts |-> timeouts,
                      loop_abort_reason |-> loop_abort_reason,
                      elapsed |-> elapsed]
    /\ pc' = "gate"
    /\ DriverIdle
    /\ UNCHANGED <<tree, exc, blocked_on, runs, calls, previous, git_steps>>
    /\ UNCHANGED attempt_frame

\* ------------------------------------------------------ the repair loop
\* What no step between the agent run and the candidate changes.
gate_frame ==
    <<cfg, attempt_idx, repo_path, dirs, tree, attempt_summaries, best_candidate,
      best_score, run_result, stop, prediction, candidates, started, runs, calls, previous, git_steps>>

\* The test that lets a repair round start: round < max_rounds (lines 331,
\* 376, 390).
RoundsLeftOneMore(round, max_rounds) == round <= max_rounds
RoundsLeft(round, max_rounds) == round < max_rounds

\* Lines 324-346: _extract_patch (the gate on `git diff HEAD`, run with
\* check=True and no timeout), then the compile-repair decision.
\* `last_patch_gate = dict(self._last_patch_gate_decision)` (line 325)
\* reads the field after _extract_patch has assigned it (line 1285):
\* validation is the decision just made, before what the field held.
DecisionReadBefore(validation, before) == before
DecisionRead(validation, before) == validation

Gate(child) ==
    /\ pc = "gate"
    /\ CASE child = "hang" ->
              /\ Block("git diff")
              /\ UNCHANGED <<last_patch_gate_decision, patch, last_patch_gate,
                             compile_fix_round, task, exc>>
         [] child = "fail" ->
              /\ exc' = Some("CalledProcessError")
              /\ pc' = "except"
              /\ UNCHANGED <<last_patch_gate_decision, patch, last_patch_gate,
                             compile_fix_round, task, blocked_on>>
         [] child = "ok" ->
              LET validation == ValidatePatchQuality(tree, cfg.patch_compile_gate)
                  compile_gate == validation.compile_gate
              IN  /\ last_patch_gate_decision' = validation
                  /\ patch' = ExtractPatch(validation)
                  /\ last_patch_gate' = DecisionRead(validation, last_patch_gate_decision)
                  /\ IF compile_gate.compile_failed > 0
                        /\ RoundsLeft(compile_fix_round, MaxCompileFixRounds)
                     THEN /\ compile_fix_round' = compile_fix_round + 1
                          /\ task' = FormatCompileFailureTask(compile_gate)
                          /\ pc' = "run_start"
                     ELSE /\ pc' = "tests"
                          /\ UNCHANGED <<compile_fix_round, task>>
                  /\ UNCHANGED <<exc, blocked_on>>
    /\ UNCHANGED <<fix_round, test_metrics, graphrag_meta>>
    /\ UNCHANGED gate_frame
    /\ UNCHANGED dvars

NoPytest == [kind |-> "exit", passed |-> 0, failed |-> 0, returncode |-> 0]

\* Lines 357-386: the failed count the repair decision reads after the
\* impacted-test call, which is made when asks holds and returns g, or
\* raises (g is None) and is only logged.
ImpactedFailedRaiseCounts(asks, g) ==
    IF asks THEN (IF IsNone(g) THEN 1 ELSE Val(g)) ELSE 0
ImpactedFailed(asks, g) == IF asks /\ ~IsNone(g) THEN Val(g) ELSE 0

\* Lines 348-403: the test gate, the impacted tests of GraphRAG (g is the
\* number that failed, or None when the call raises), and the decision to
\* go round again.
TestGate(o1, o2, g) ==
    /\ pc = "tests"
    /\ o1 \in IF RequireTestChecks /\ RunsSubset(cfg.f2p_n)
              THEN PytestOutcomes(cfg.f2p_n) ELSE {NoPytest}
    /\ o2 \in IF RequireTestChecks /\ RunsSubset(Min(cfg.p2p_n, p2p_smoke_count))
              THEN PytestOutcomes(Min(cfg.p2p_n, p2p_smoke_count)) ELSE {NoPytest}
    /\ LET metrics == EvaluateCandidate(cfg.f2p_n, cfg.p2p_n, RequireTestChecks, o1, o2)
           asks == cfg.mode.graphrag_enabled /\ patch # "" /\ DiffInfo(tree).py # <<>>
           failed == ImpactedFailed(asks, g)
       IN  /\ asks \/ IsNone(g)
           /\ test_metrics' = metrics
           /\ graphrag_meta' = IF asks /\ ~IsNone(g)
                               THEN [graphrag_meta EXCEPT !.impacted_failed = Val(g)]
                               ELSE IF asks
                               THEN [graphrag_meta EXCEPT !.impacted_raised = TRUE]
                               ELSE graphrag_meta
           /\ IF failed > 0 /\ RoundsLeft(fix_round, MaxFixRounds)
              THEN /\ fix_round' = fix_round + 1
                   /\ task' = FormatGraphragFailureTask
                   /\ pc' = "run_start"
              ELSE IF /\ RequireTestChecks
                      /\ RoundsLeft(fix_round, MaxFixRounds)
                      /\ metrics.f2p_total > 0
                      /\ ~metrics.f2p_all_passed
              THEN /\ fix_round' = fix_round + 1
                   /\ task' = FormatTestFailureTask(metrics)
                   /\ pc' = "run_start"
              ELSE /\ pc' = "emit"
                   /\ UNCHANGED <<fix_round, task>>
    /\ UNCHANGED <<compile_fix_round, patch, last_patch_gate,
                   last_patch_gate_decision, exc, blocked_on>>
    /\ UNCHANGED gate_frame
    /\ UNCHANGED dvars

\* ------------------------------------------------------------- candidates
\* Lines 405-424.
Candidate ==
    [attempt |-> attempt_idx,
     prediction |-> patch,
     status |-> run_result.status,
     steps |-> run_result.steps,
     format_errors |-> run_result.format_errors,
     timeouts |-> run_result.timeouts,
     loop_abort_reason |-> run_result.loop_abort_reason,
     elapsed |-> run_result.elapsed,
     f2p_pass_rate |-> test_metrics.f2p_pass_rate,
     p2p_smoke_failures |-> test_metrics.p2p_smoke_failures,
     clean_resolution |-> test_metrics.clean_resolution,
     patch_gate_valid |-> last_patch_gate.valid,
     patch_gate_reason |-> last_patch_gate.reason,
     patch_gate_severity |-> last_patch_gate.severity,
     compile_fix_rounds |-> compile_fix_round,
     graphrag_metadata |-> [graph_built |-> graphrag_meta.graph_built,
                            impacted_failed |-> graphrag_meta.impacted_failed]]

\* Lines 425-438.
Summary(c) ==
    [attempt |-> c.attempt,
     status |-> c.status,
     patch_chars |-> DiffInfo(c.prediction).chars,
     steps |-> c.steps,
     loop_abort_reason |-> c.loop_abort_reason,
     f2p_pass_rate |-> c.f2p_pass_rate,
     p2p_smoke_failures |-> c.p2p_smoke_failures,
     clean_resolution |-> c.clean_resolution,
     patch_gate_valid |-> c.patch_gate_valid,
     patch_gate_reason |-> c.patch_gate_reason,
     patch_gate_severity |-> c.patch_gate_severity,
     compile_fix_rounds |-> c.compile_fix_rounds]

\* Lines 446-458: the two early-stop tests.
CleanStop(c) ==
    c.clean_resolution = Some(TRUE) /\ DiffInfo(c.prediction).chars > 0
CompileValidSubmitted(c) ==
    /\ c.status = "Submitted"
    /\ DiffInfo(c.prediction).chars > 0
    /\ c.patch_gate_valid
    /\ ~HasToken(c.patch_gate_reason, "syntax_compile_failed")
EarlyStopNever(c) == FALSE
EarlyStop(c) == CleanStop(c) \/ CompileValidSubmitted(c)

\* Lines 405-458: the candidate, its summary, the best so far, early stop.
EmitCandidate ==
    /\ pc = "emit"
    /\ LET c == Candidate
           score == ScoreCandidate(c)
       IN  /\ attempt_summaries' = Append(attempt_summaries, Summary(c))
           /\ candidates' = Append(candidates, c)
           /\ IF IsNewBest(score, best_score)
              THEN /\ best_score' = Some(score)
                   /\ best_candidate' = Some(c)
              ELSE UNCHANGED <<best_score, best_candidate>>
           /\ stop' = EarlyStop(c)
    /\ pc' = "finally"
    /\ UNCHANGED <<cfg, attempt_idx, repo_path, dirs, tree, task, fix_round,
                   compile_fix_round, run_result, patch, test_metrics,
                   last_patch_gate, last_patch_gate_decision, graphrag_meta, exc,
                   prediction, blocked_on, started, runs, calls, previous, git_steps>>
    /\ UNCHANGED dvars

\* `except Exception` (line 460): every exception the try block raises here
\* is an Exception.
CatchesAgentErrorsOnly(kind) == kind # "CalledProcessError"
Catches(kind) == TRUE

\* Lines 460-463.
Except ==
    /\ pc = "except"
    /\ exc' = IF Catches(Val(exc)) THEN None ELSE exc
    /\ pc' = "finally"
    /\ UNCHANGED <<cfg, attempt_idx, repo_path, dirs, tree, attempt_summaries,
                   best_candidate, best_score, task, fix_round, compile_fix_round,
                   run_result, patch, test_metrics, last_patch_gate,
                   last_patch_gate_decision, graphrag_meta, stop, prediction,
                   blocked_on, candidates, started, runs, calls, previous>>
    /\ git_steps' = <<>>
    /\ UNCHANGED dvars

\* Lines 464-469: the temporary directory of repo_path is removed, when
\* repo_path was ever assigned.
Cleanup(rp, ds) == IF rp # None /\ Val(rp) \in ds THEN ds \ {Val(rp)} ELSE ds

Finally ==
    /\ pc = "finally"
    /\ dirs' = Cleanup(repo_path, dirs)
    /\ pc' = IF exc # None THEN "raised" ELSE "for"
    /\ UNCHANGED <<cfg, attempt_idx, repo_path, tree, attempt_summaries,
                   best_candidate, best_score, task, fix_round, compile_fix_round,
                   run_result, patch, test_metrics, last_patch_gate,
                   last_patch_gate_decision, graphrag_meta, stop, exc, prediction,
                   blocked_on, candidates, started, runs, calls, previous, git_steps>>
    /\ UNCHANGED dvars

\* Lines 473-507: the returned dict.  Keys the degenerate dict lacks read as
\* their empty values.
DegeneratePrediction(summaries) ==
    [prediction |-> "", error |-> "No successful attempt", status |-> "error",
     steps |-> 0, elapsed |-> 0, attempts_used |-> Len(summaries),
     loop_abort_reason |-> <<>>, f2p_pass_rate |-> None,
     p2p_smoke_failures |-> None, clean_resolution |-> None,
     patch_gate_valid |-> FALSE, patch_gate_reason |-> <<"no_attempt_completed">>,
     patch_gate_severity |-> "fail", compile_fix_rounds |-> 0,
     attempt_summaries |-> summaries]
BestPrediction(best, summaries) ==
    [prediction |-> best.prediction, error |-> "", status |-> best.status,
     steps |-> best.steps, elapsed |-> best.elapsed,
     attempts_used |-> Len(summaries),
     loop_abort_reason |-> best.loop_abort_reason,
     f2p_pass_rate |-> best.f2p_pass_rate,
     p2p_smoke_failures |-> best.p2p_smoke_failures,
     clean_resolution |-> best.clean_resolution,
     patch_gate_valid |-> best.patch_gate_valid,
     patch_gate_reason |-> best.patch_gate_reason,
     patch_gate_severity |-> best.patch_gate_severity,
     compile_fix_rounds |-> best.compile_fix_rounds,
     attempt_summaries |-> summaries]

\* Lines 471-507.  The log file written on line 471 is read by nothing
\* here.
Return ==
    /\ pc = "after_loop"
    /\ prediction' = IF best_candidate = None
                     THEN Some(DegeneratePrediction(attempt_summaries))
                     ELSE Some(BestPrediction(Val(best_candidate), attempt_summaries))
    /\ pc' = "returned"
    /\ UNCHANGED <<cfg, attempt_idx, repo_path, dirs, tree, attempt_summaries,
                   best_candidate, best_score, task, fix_round, compile_fix_round,
                   run_result, patch, test_metrics, last_patch_gate,
                   last_patch_gate_decision, graphrag_meta, stop, exc, blocked_on,
                   candidates, started, runs, calls, previous, git_steps>>
    /\ UNCHANGED dvars

\* ------------------------------------------------------------ specification
ChildOutcomes == {"ok", "hang"}
ErrorKinds == {"ConnectionError", "RuntimeError"}

\* The orchestration: an agent that emits an edit command or submits.
Next ==
    \/ StartAttempt
    \/ ExitLoop
    \/ \E o \in SetupOutcomes, built \in BOOLEAN : SetupRepository(o, built)
    \/ \E child \in ChildOutcomes : RunStart(child)
    \/ AddSystemMessage
    \/ \E child \in ChildOutcomes : AddTaskMessage(child)
    \/ \E cmd \in {SedCmd, SubmitCmd} : AddAssistantMessage(cmd)
    \/ \E rc \in {Some(0), Some(1)}, d \in AgentDiffs, child \in ChildOutcomes :
          AddObservation(rc, d, child)
    \/ \E child \in ChildOutcomes : AddExitMessage(child)
    \/ \E kind \in ErrorKinds : (Retryable(kind) => cfg.flaky) /\ ModelError(kind)
    \/ RunEnd(1)
    \/ \E child \in {"ok", "fail", "hang"} : Gate(child)
    \/ \E o1 \in PytestOutcomes(MaxTests), o2 \in PytestOutcomes(MaxTests),
          g \in {None, Some(0), Some(1)} : TestGate(o1, o2, g)
    \/ EmitCandidate
    \/ Except
    \/ Finally
    \/ Return

Spec == Init /\ [][Next]_vars

\* The driver: one attempt, the agent's whole alphabet.
AgentCmds == {NoCmd, SedCmd, GrepCmd, PyImportCmd, SubmitCmd}
ReturnCodes == {None, Some(0), Some(1)}

InitDriver == \E c \in DriverConfigs : InitWith(c)

NextDriver ==
    \/ StartAttempt
    \/ ExitLoop
    \/ \E o \in SetupOutcomes, built \in BOOLEAN : SetupRepository(o, built)
    \/ \E child \in ChildOutcomes : RunStart(child)
    \/ AddSystemMessage
    \/ \E child \in ChildOutcomes : AddTaskMessage(child)
    \/ \E cmd \in AgentCmds : AddAssistantMessage(cmd)
    \/ \E rc \in ReturnCodes, d \in AgentDiffs, child \in ChildOutcomes :
          AddObservation(rc, d, child)
    \/ \E child \in ChildOutcomes : AddFormatError(child)
    \/ \E child \in ChildOutcomes : AddExitMessage(child)
    \/ \E kind \in ErrorKinds : ModelError(kind)
    \/ RunEnd(1)
    \/ \E child \in {"ok", "fail", "hang"} : Gate(child)
    \/ TestGate(NoPytest, NoPytest, None)
    \/ EmitCandidate
    \/ Except
    \/ Finally
    \/ Return

SpecDriver == InitDriver /\ [][NextDriver]_vars

\* The search-only runs: one attempt of an agent that only ever emits search
\* commands, with one step more than the search streak needs to reach its
\* limit.  A search exits with code 0, exits with code 1 (nothing found) or
\* times out.
SearchSteps == search_streak_limit + 1
SearchConfigs ==
    {Config(pol, 1, SearchSteps, Vanilla, 0, TRUE, 0, 0, 0, FALSE) :
        pol \in {"warn", "strict"}}

InitSearch == \E c \in SearchConfigs : InitWith(c)

NextSearch ==
    \/ StartAttempt
    \/ ExitLoop
    \/ \E o \in SetupOutcomes : SetupRepository(o, FALSE)
    \/ \E child \in ChildOutcomes : RunStart(child)
    \/ AddSystemMessage
    \/ \E child \in ChildOutcomes : AddTaskMessage(child)
    \/ \E cmd \in {GrepCmd, LsCmd} : AddAssistantMessage(cmd)
    \/ \E rc \in {Some(0), Some(1), None}, child \in ChildOutcomes :
          AddObservation(rc, tree, child)
    \/ \E child \in ChildOutcomes : AddExitMessage(child)
    \/ RunEnd(1)
    \/ \E child \in {"ok", "fail", "hang"} : Gate(child)
    \/ TestGate(NoPytest, NoPytest, None)
    \/ EmitCandidate
    \/ Except
    \/ Finally
    \/ Return

SpecSearch == InitSearch /\ [][NextSearch]_vars

\* The timeout runs: one attempt with test checks and a test-repair round,
\* in which every pytest run either passes all the tests it was given or
\* outlives its timeout.
TimedOut == [kind |-> "timeout", passed |-> 0, failed |-> 0, returncode |-> 0]
AllPassed(n) == [kind |-> "exit", passed |-> n, failed |-> 0, returncode |-> 0]
TimeoutConfigs ==
    {Config("strict", 1, OrchSteps, Tdd, 1, TRUE, 0, f, p, FALSE) :
        f \in {0, MaxTests}, p \in {0, MaxTests}}

InitTimeout == \E c \in TimeoutConfigs : InitWith(c)

NextTimeout ==
    \/ StartAttempt
    \/ ExitLoop
    \/ \E o \in SetupOutcomes : SetupRepository(o, FALSE)
    \/ \E child \in ChildOutcomes : RunStart(child)
    \/ AddSystemMessage
    \/ \E child \in ChildOutcomes : AddTaskMessage(child)
    \/ \E cmd \in {SedCmd, SubmitCmd} : AddAssistantMessage(cmd)
    \/ \E rc \in {Some(0), Some(1)}, d \in AgentDiffs, child \in ChildOutcomes :
          AddObservation(rc, d, child)
    \/ \E child \in ChildOutcomes : AddExitMessage(child)
    \/ RunEnd(1)
    \/ \E child \in {"ok", "fail", "hang"} : Gate(child)
    \/ \E o1 \in {NoPytest, TimedOut, AllPassed(cfg.f2p_n)},
          o2 \in {NoPytest, TimedOut, AllPassed(cfg.p2p_n)} : TestGate(o1, o2, None)
    \/ EmitCandidate
    \/ Except
    \/ Finally
    \/ Return

SpecTimeout == InitTimeout /\ [][NextTimeout]_vars

\* The gate runs: one attempt, without and with test checks, of an agent
\* whose edits can leave any of the diffs of DiffIds in the working tree.
GateConfigs ==
    {Config("off", 1, OrchSteps, Vanilla, 0, gate, 0, 0, 0, FALSE) : gate \in BOOLEAN}
    \cup {Config("off", 1, OrchSteps, Tdd, 0, TRUE, 0, f, MaxTests, FALSE) :
            f \in {MaxTests, MaxTests + 1}}
    \cup {Config("off", 1, OrchSteps, Tdd, 0, TRUE, 1, MaxTests, MaxTests, FALSE)}

InitGate == \E c \in GateConfigs : InitWith(c)

NextGate ==
    \/ StartAttempt
    \/ ExitLoop
    \/ \E o \in SetupOutcomes : SetupRepository(o, FALSE)
    \/ \E child \in ChildOutcomes : RunStart(child)
    \/ AddSystemMessage
    \/ \E child \in ChildOutcomes : AddTaskMessage(child)
    \/ \E cmd \in {SedCmd, SubmitCmd} : AddAssistantMessage(cmd)
    \/ \E rc \in {Some(0)}, d \in DiffIds, child \in ChildOutcomes :
          AddObservation(rc, d, child)
    \/ \E child \in ChildOutcomes : AddExitMessage(child)
    \/ RunEnd(1)
    \/ \E child \in {"ok", "fail", "hang"} : Gate(child)
    \/ \E o1 \in PytestOutcomes(MaxTests), o2 \in PytestOutcomes(MaxTests) :
          TestGate(o1, o2, None)
    \/ EmitCandidate
    \/ Except
    \/ Finally
    \/ Return

SpecGate == InitGate /\ [][NextGate]_vars

\* The repeated runs: execute_code_cli is called twice on the same task, on
\* the same object and with the same settings, against an agent and an
\* environment that are functions of the settings and of the position in the
\* call: attempt 1 fails its edit, leaves a file that does not compile and
\* fails its tests; a later attempt edits cleanly and passes; a flaky
\* backend refuses every connection of attempt 1.  The wall clock alone is
\* free: an agent run takes 1..MaxElapsed.
MaxElapsed == 2
Durations == 1..MaxElapsed

AgentScript(n) == IF n = 0 THEN SedCmd ELSE SubmitCmd
ReturnCodeScript(attempt) == IF attempt = 1 THEN Some(1) ELSE Some(0)
DiffScript(attempt) == IF attempt = 1 THEN "d_syn" ELSE "d_ok"
PytestScript(attempt, n) ==
    IF n = 0 THEN NoPytest
    ELSE IF attempt = 1
    THEN [kind |-> "exit", passed |-> 0, failed |-> n, returncode |-> 1]
    ELSE AllPassed(n)
BackendRefuses == cfg.flaky /\ attempt_idx = 1
SetupScript ==
    [shallow |-> "ok", full |-> "ok", fetch |-> "ok", checkout |-> "ok"]

TwiceConfigs ==
    {Config(pol, ma, OrchSteps, Vanilla, 0, gate, 0, 0, 0, FALSE) :
        pol \in Policies, ma \in 1..MaxAttempts, gate \in BOOLEAN}
    \cup {Config(pol, ma, OrchSteps, Tdd, 0, TRUE, 0, MaxTests, MaxTests, FALSE) :
        pol \in Policies, ma \in 1..MaxAttempts}
    \cup {WithFlakyBackend(Config("strict", ma, OrchSteps, Vanilla, 0, TRUE, 0, 0, 0, FALSE)) :
        ma \in 1..MaxAttempts}

\* best_score as execute_code_cli finds it on entry (line 260), old being
\* what the call before left in it.
EntryBestScoreKept(old) == old
EntryBestScore(old) == None

\* The call returned (lines 473-507) and execute_code_cli is entered again
\* (lines 255-260): its locals are fresh, the object's attributes, the
\* settings and the file system are what the first call left.
Rerun ==
    /\ pc = "returned"
    /\ previous = None
    /\ previous' = prediction
    /\ pc' = "for"
    /\ attempt_idx' = 0
    /\ repo_path' = None
    /\ attempt_summaries' = <<>>
    /\ best_candidate' = None
    /\ best_score' = EntryBestScore(best_score)
    /\ task' = NoTask
    /\ fix_round' = 0
    /\ compile_fix_round' = 0
    /\ run_result' = EmptyRunResult
    /\ patch' = ""
    /\ test_metrics' = EmptyMetrics
    /\ last_patch_gate' = EmptyGate
    /\ graphrag_meta' = InitGraphragMeta
    /\ stop' = FALSE
    /\ exc' = None
    /\ prediction' = None
    /\ candidates' = <<>>
    /\ started' = <<>>
    /\ runs' = 0
    /\ calls' = 0
    /\ UNCHANGED <<cfg, dirs, tree, last_patch_gate_decision, blocked_on, git_steps>>
    /\ UNCHANGED dvars

InitTwice == \E c \in TwiceConfigs : InitWith(c)

NextTwice ==
    \/ StartAttempt
    \/ ExitLoop
    \/ SetupRepository(SetupScript, FALSE)
    \/ RunStart("ok")
    \/ AddSystemMessage
    \/ AddTaskMessage("ok")
    \/ ~BackendRefuses /\ AddAssistantMessage(AgentScript(n_calls))
    \/ AddObservation(ReturnCodeScript(attempt_idx), DiffScript(attempt_idx), "ok")
    \/ AddExitMessage("ok")
    \/ BackendRefuses /\ ModelError("ConnectionError")
    \/ \E elapsed \in Durations : RunEnd(elapsed)
    \/ Gate("ok")
    \/ TestGate(PytestScript(attempt_idx, cfg.f2p_n),
                PytestScript(attempt_idx, cfg.p2p_n), None)
    \/ EmitCandidate
    \/ Except
    \/ Finally
    \/ Return
    \/ Rerun

SpecTwice == InitTwice /\ [][NextTwice]_vars

\* The zero-counter runs: one attempt with test checks in which the output
\* of every pytest run shows the counter `0 passed`, alone or with a failed
\* counter, and the child exits with code 0 or 1.
ZeroPassedTexts(n) ==
    {[passed |-> Some(0), failed |-> f] : f \in {None} \cup {Some(k) : k \in 0..n}}
PytestConfigs ==
    {Config(pol, 1, OrchSteps, Tdd, 0, TRUE, 0, MaxTests, p, FALSE) :
        pol \in {"off", "strict"}, p \in {0, MaxTests}}

InitPytest == \E c \in PytestConfigs : InitWith(c)

NextPytest ==
    \/ StartAttempt
    \/ ExitLoop
    \/ \E o \in SetupOutcomes : SetupRepository(o, FALSE)
    \/ \E child \in ChildOutcomes : RunStart(child)
    \/ AddSystemMessage
    \/ \E child \in ChildOutcomes : AddTaskMessage(child)
    \/ \E cmd \in {SedCmd, SubmitCmd} : AddAssistantMessage(cmd)
    \/ \E rc \in {Some(0), Some(1)}, d \in AgentDiffs, child \in ChildOutcomes :
          AddObservation(rc, d, child)
    \/ \E child \in ChildOutcomes : AddExitMessage(child)
    \/ RunEnd(1)
    \/ \E child \in {"ok", "fail", "hang"} : Gate(child)
    \/ \E t1 \in ZeroPassedTexts(cfg.f2p_n), t2 \in ZeroPassedTexts(cfg.p2p_n),
          rc1 \in {0, 1}, rc2 \in {0, 1} :
          TestGate(Exited(t1, rc1), Exited(t2, rc2), None)
    \/ EmitCandidate
    \/ Except
    \/ Finally
    \/ Return

SpecPytest == InitPytest /\ [][NextPytest]_vars

\* The retry runs: one attempt more than MaxAttempts, under the strict
\* policy, of an agent whose edits never pass the gate, so that no attempt
\* stops the loop; the clone and the gate's `git diff` can fail.
RetryConfigs ==
    {Config("strict", MaxAttempts + 1, OrchSteps, Vanilla, 0, TRUE, 0, 0, 0, FALSE)}

InitRetry == \E c \in RetryConfigs : InitWith(c)

NextRetry ==
    \/ StartAttempt
    \/ ExitLoop
    \/ \E o \in SetupOutcomes : SetupRepository(o, FALSE)
    \/ RunStart("ok")
    \/ AddSystemMessage
    \/ AddTaskMessage("ok")
    \/ \E cmd \in {SedCmd, SubmitCmd} : AddAssistantMessage(cmd)
    \/ \E rc \in {Some(0), Some(1)}, d \in {"", "d_syn"} : AddObservation(rc, d, "ok")
    \/ AddExitMessage("ok")
    \/ RunEnd(1)
    \/ \E child \in {"ok", "fail"} : Gate(child)
    \/ TestGate(NoPytest, NoPytest, None)
    \/ EmitCandidate
    \/ Except
    \/ Finally
    \/ Return

SpecRetry == InitRetry /\ [][NextRetry]_vars

\* The runs of an agent that keeps editing without failing: one attempt,
\* with one step more than the no-diff streak needs to reach its limit.
\* Every command exits with code 0 and leaves the working tree clean or
\* with one and the same diff; the `git diff HEAD` of the signature answers
\* or cannot be run.
NoDiffSteps == no_diff_streak_limit + 1
NoDiffConfigs ==
    {Config(pol, 1, NoDiffSteps, Vanilla, 0, TRUE, 0, 0, 0, FALSE) :
        pol \in {"warn", "strict"}}
SignatureOutcomes == {"ok", "raise"}

InitNoDiff == \E c \in NoDiffConfigs : InitWith(c)

NextNoDiff ==
    \/ StartAttempt
    \/ ExitLoop
    \/ \E o \in SetupOutcomes : SetupRepository(o, FALSE)
    \/ \E child \in SignatureOutcomes : RunStart(child)
    \/ AddSystemMessage
    \/ \E child \in SignatureOutcomes : AddTaskMessage(child)
    \/ \E cmd \in {SedCmd, SubmitCmd} : AddAssistantMessage(cmd)
    \/ \E d \in {"", "d_ok"}, child \in SignatureOutcomes :
          AddObservation(Some(0), d, child)
    \/ \E child \in SignatureOutcomes : AddExitMessage(child)
    \/ RunEnd(1)
    \/ Gate("ok")
    \/ TestGate(NoPytest, NoPytest, None)
    \/ EmitCandidate
    \/ Except
    \/ Finally
    \/ Return

SpecNoDiff == InitNoDiff /\ [][NextNoDiff]_vars


\* ------------------------------------------------------------------ claims
\* C1: every Candidate whose quality-gate severity is "fail" has an empty
\* prediction, and so has the returned Prediction; the gate fields and the
\* patch of a Candidate come from one evaluation of the gate on the
\* working tree.
C1_FailMeansEmptyPrediction ==
    /\ \A i \in 1..Len(candidates) :
          candidates[i].patch_gate_severity = "fail" => candidates[i].prediction = ""
    /\ prediction # None =>
          (Val(prediction).patch_gate_severity = "fail"
              => Val(prediction).prediction = "")
    /\ pc \in {"tests", "emit"} =>
          /\ last_patch_gate = last_patch_gate_decision
          /\ last_patch_gate.diff = tree
          /\ patch = IF last_patch_gate.severity = "fail" THEN "" ELSE tree

\* A run returned after the gate rejected a non-empty diff (one that does
\* not compile).
C1_Witness ==
    /\ pc = "returned"
    /\ \E i \in 1..Len(candidates) :
          /\ candidates[i].patch_gate_severity = "fail"
          /\ HasToken(candidates[i].patch_gate_reason, "syntax_compile_failed")

\* C2: whenever Candidates exist, the best candidate is one of them and no
\* Candidate of the run has a strictly greater score tuple; the returned
\* Prediction is built from it.
C2_BestIsMaximal ==
    candidates # <<>> =>
        /\ best_candidate # None
        /\ \E i \in 1..Len(candidates) :
              /\ Val(best_candidate) = candidates[i]
              /\ \A j \in 1..Len(candidates) :
                    ~TupleGT(ScoreCandidate(candidates[j]),
                             ScoreCandidate(candidates[i]))
        /\ pc = "returned" =>
              Val(prediction) = BestPrediction(Val(best_candidate), attempt_summaries)

\* A run returned with an earlier Candidate that strictly beats a later one.
C2_Witness ==
    /\ pc = "returned"
    /\ \E i, j \in 1..Len(candidates) :
          /\ i < j
          /\ TupleGT(ScoreCandidate(candidates[i]), ScoreCandidate(candidates[j]))

\* C3: once a Candidate satisfies an early-stop condition, no attempt after
\* its own is ever started; and the loop is not left after a Candidate that
\* satisfies neither, with attempts remaining, before the next attempt is
\* started.
C3_EarlyStop ==
    /\ \A i \in 1..Len(candidates) :
          (CleanStop(candidates[i]) \/ CompileValidSubmitted(candidates[i]))
             => \A k \in 1..Len(started) : started[k] <= candidates[i].attempt
    /\ pc \in {"after_loop", "returned"} =>
          \A i \in 1..Len(candidates) :
             (/\ ~CleanStop(candidates[i])
              /\ ~CompileValidSubmitted(candidates[i])
              /\ candidates[i].attempt < cfg.max_attempts)
                => \E k \in 1..Len(started) : started[k] = candidates[i].attempt + 1

\* A run returned after its first attempt stopped it early, with attempts
\* remaining.
C3_Witness ==
    /\ pc = "returned"
    /\ started = <<1>>
    /\ cfg.max_attempts > 1
    /\ Len(candidates) = 1
    /\ CleanStop(candidates[1]) \/ CompileValidSubmitted(candidates[1])

\* C4: at most max_attempts attempts are started, with indexes 1, 2, ... in
\* order and each once; the Prediction's attempts_used is at most
\* max_attempts and is the length of its attempt_summaries.
C4_AttemptsBounded ==
    /\ Len(started) <= cfg.max_attempts
    /\ \A k \in 1..Len(started) : started[k] = k
    /\ prediction # None =>
          /\ Val(prediction).attempts_used <= cfg.max_attempts
          /\ Val(prediction).attempts_used = Len(Val(prediction).attempt_summaries)

\* A run returned with every attempt started and summarised.
C4_Witness ==
    /\ pc = "returned"
    /\ cfg.max_attempts > 1
    /\ Len(started) = cfg.max_attempts
    /\ Val(prediction).attempts_used = cfg.max_attempts

C6_WorkdirRemoved ==
    /\ pc \in {"run_start", "agent", "gate", "tests", "emit"} => attempt_idx \in dirs
    /\ pc \in {"for", "after_loop", "returned"} => dirs = {}

\* C7: execute_code_cli is never stuck short of returning: no wait on a
\* child process lasts forever.
C7_AlwaysReturns == pc = "returned" \/ ENABLED Next

\* C8, as stated: under the strict policy a user message that leaves an
\* abort reason set is forwarded with the abort warning and ends the run
\* with status LoopAborted and that reason, and the attempt of an aborted
\* run produces a Candidate.
C8_AbortedAttemptYieldsCandidate ==
    cfg.loop_policy = "strict" =>
        /\ (pc = "agent" /\ loop_abort_reason # <<>>) =>
              /\ agent_pc = "aborted"
              /\ forwarded.role = "user"
              /\ forwarded.warnings # <<>>
              /\ forwarded.warnings[Len(forwarded.warnings)] = AbortWarning
        /\ run_result.status = "LoopAborted" <=> run_result.loop_abort_reason # <<>>
        /\ (pc = "for" /\ runs > 0 /\ run_result.status = "LoopAborted") =>
              \E i \in 1..Len(candidates) : candidates[i].attempt = attempt_idx

\* C8, amended: under the strict policy a user message that leaves an abort
\* reason set is forwarded with the abort warning last among the warnings
\* put before it, and nothing but the end of the run follows; the run ends
\* with status LoopAborted and that reason and goes to the gate on the
\* working tree as it is; the attempt produces a Candidate of that status
\* and reason when the gate's `git diff HEAD` came back and no repair round
\* followed.
C8_StrictAbort ==
    /\ [](cfg.loop_policy = "strict" =>
            /\ (pc = "agent" /\ loop_abort_reason # <<>>) =>
                  /\ agent_pc = "aborted"
                  /\ forwarded.role = "user"
                  /\ forwarded.warnings # <<>>
                  /\ forwarded.warnings[Len(forwarded.warnings)] = AbortWarning
            /\ run_result.status = "LoopAborted" <=> run_result.loop_abort_reason # <<>>
            /\ (/\ pc = "for"
                /\ runs = 1
                /\ run_result.status = "LoopAborted"
                /\ last_patch_gate # EmptyGate) =>
                  \E i \in 1..Len(candidates) :
                     /\ candidates[i].attempt = attempt_idx
                     /\ candidates[i].status = "LoopAborted"
                     /\ candidates[i].loop_abort_reason = run_result.loop_abort_reason)
    /\ [][(cfg.loop_policy = "strict" /\ pc = "agent" /\ agent_pc = "aborted") =>
            /\ pc' = "gate"
            /\ tree' = tree
            /\ run_result'.status = "LoopAborted"
            /\ run_result'.steps = n_calls
            /\ run_result'.loop_abort_reason = loop_abort_reason]_vars

\* A strict run was aborted and its attempt has produced the Candidate.
C8_Witness ==
    /\ cfg.loop_policy = "strict"
    /\ pc = "for"
    /\ run_result.status = "LoopAborted"
    /\ \E i \in 1..Len(candidates) :
          /\ candidates[i].attempt = attempt_idx
          /\ candidates[i].status = "LoopAborted"
          /\ candidates[i].loop_abort_reason # <<>>

\* C9: under the policy "off" no loop_abort_reason is ever set, in the
\* driver, the run result, a Candidate or the Prediction; no streak counter
\* leaves its initial value and no message is forwarded with a warning.
C9_OffDetectsNothing ==
    cfg.loop_policy = "off" =>
        /\ loop_abort_reason = <<>>
        /\ run_result.loop_abort_reason = <<>>
        /\ \A i \in 1..Len(candidates) : candidates[i].loop_abort_reason = <<>>
        /\ prediction # None => Val(prediction).loop_abort_reason = <<>>
        /\ forwarded.warnings = <<>>
        /\ diff_state.no_diff_streak = 0
        /\ diff_state.search_streak = 0
        /\ diff_state.failed_cmd_streak = 0
        /\ diff_state.failed_cmd_norm = <<>>
        /\ diff_state.sed_fail_streak = 0
        /\ ~diff_state.seen_nonempty

\* Under "off" on macOS the observation of a second failing `sed -i` in a
\* row, made on a changed working tree, has been forwarded.
C9_Witness ==
    /\ cfg.loop_policy = "off"
    /\ cfg.darwin
    /\ pc = "agent"
    /\ command_history = <<SedCmd, SedCmd>>
    /\ tree # ""
    /\ forwarded.role = "user"
    /\ forwarded.body = ObservationContent(1)

\* C10: under the policy "warn" no run is ever aborted: the driver never
\* raises, no run result, Candidate or Prediction has status LoopAborted;
\* detection runs, and a user message that takes the sed streak to its
\* limit is forwarded with the abort warning.
C10_WarnNeverAborts ==
    cfg.loop_policy = "warn" =>
        /\ agent_pc # "aborted"
        /\ run_result.status # "LoopAborted"
        /\ \A i \in 1..Len(candidates) : candidates[i].status # "LoopAborted"
        /\ prediction # None => Val(prediction).status # "LoopAborted"
        /\ (/\ pc = "agent"
            /\ forwarded.role = "user"
            /\ diff_state.sed_fail_streak >= sed_fail_limit) =>
              /\ loop_abort_reason # <<>>
              /\ HasToken(forwarded.warnings, AbortWarning)

\* Under "warn" the agent has taken a model turn after a limit was reached.
C10_Witness ==
    /\ cfg.loop_policy = "warn"
    /\ pc = "agent"
    /\ loop_abort_reason # <<>>
    /\ forwarded.role = "assistant"
    /\ agent_pc = "execute"

C12_RepairLoopBounded ==
    /\ runs <= 1 + MaxFixRounds + MaxCompileFixRounds
    /\ fix_round <= MaxFixRounds
    /\ compile_fix_round <= MaxCompileFixRounds
    /\ pc \in {"agent", "gate", "tests", "emit"} =>
          runs = 1 + fix_round + compile_fix_round
    /\ \A i \in 1..Len(candidates) :
          candidates[i].compile_fix_rounds <= MaxCompileFixRounds

\* An attempt that used a compile-repair round and a test-repair round is
\* about to build its Candidate.
C12_Witness ==
    /\ pc = "emit"
    /\ fix_round = 1
    /\ compile_fix_round = 1
    /\ runs = 3
    /\ runs = 1 + MaxFixRounds + MaxCompileFixRounds

\* C13: in the metrics of _evaluate_candidate clean_resolution is true
\* exactly when every FAIL_TO_PASS test passed and the smoke subset had no
\* failure, and it is not null only when both subsets were run.
C13_CleanResolution ==
    /\ test_metrics.clean_resolution = Some(TRUE) <=>
          (test_metrics.f2p_all_passed /\ test_metrics.p2p_smoke_failures = Some(0))
    /\ test_metrics.clean_resolution # None =>
          /\ RequireTestChecks
          /\ cfg.f2p_n > 0 /\ test_metrics.f2p_passed # None
          /\ cfg.p2p_n > 0 /\ test_metrics.p2p_smoke_total # None
    /\ \A i \in 1..Len(candidates) :
          candidates[i].clean_resolution = Some(TRUE) =>
             candidates[i].p2p_smoke_failures = Some(0)

\* The test gate found every FAIL_TO_PASS test passing and a smoke test
\* failing: clean_resolution is false, not null.
C13_Witness ==
    /\ pc = "emit"
    /\ test_metrics.f2p_all_passed
    /\ test_metrics.p2p_smoke_failures # None
    /\ Val(test_metrics.p2p_smoke_failures) > 0
    /\ test_metrics.clean_resolution = Some(FALSE)

\* C14, as stated: with no FAIL_TO_PASS test, clean_resolution is never true
\* and f2p_pass_rate stays null; with no test at all every metric is null
\* and only the non-empty and size components of a Candidate's score are
\* not neutral.
C14_ScoreByNonEmptyAndSize ==
    /\ cfg.f2p_n = 0 =>
          /\ test_metrics.clean_resolution # Some(TRUE)
          /\ test_metrics.f2p_pass_rate = None
    /\ (cfg.f2p_n = 0 /\ cfg.p2p_n = 0) =>
          \A i \in 1..Len(candidates) :
             ScoreCandidate(candidates[i]) =
                <<IF candidates[i].prediction # "" THEN 1 ELSE 0, <<0, 1>>, 0, 0,
                  -DiffInfo(candidates[i].prediction).chars>>

\* C14, amended: with no FAIL_TO_PASS test, clean_resolution is null and
\* f2p_pass_rate stays null, in the metrics and in every Candidate; with no
\* test at all no subset is run, every metric is null, and the test
\* components of a Candidate's score are neutral: the score is decided by
\* the non-empty, loop-penalty and size components.
C14_NoFalsePositive ==
    /\ cfg.f2p_n = 0 =>
          /\ test_metrics.clean_resolution = None
          /\ test_metrics.f2p_pass_rate = None
          /\ ~test_metrics.f2p_all_passed
          /\ \A i \in 1..Len(candidates) :
                /\ candidates[i].clean_resolution = None
                /\ candidates[i].f2p_pass_rate = None
    /\ (cfg.f2p_n = 0 /\ cfg.p2p_n = 0) =>
          /\ test_metrics.f2p_passed = None
          /\ test_metrics.f2p_failed = None
          /\ test_metrics.p2p_smoke_total = None
          /\ test_metrics.p2p_smoke_failures = None
          /\ \A i \in 1..Len(candidates) :
                ScoreCandidate(candidates[i]) =
                   <<IF candidates[i].prediction # "" THEN 1 ELSE 0, <<0, 1>>, 0,
                     IF candidates[i].loop_abort_reason # <<>> THEN -1 ELSE 0,
                     -DiffInfo(candidates[i].prediction).chars>>

\* A run with test checks on and no test at all built a Candidate with a
\* non-empty patch from an aborted run.
C14_Witness ==
    /\ cfg.mode.tdd_mode
    /\ cfg.f2p_n = 0
    /\ cfg.p2p_n = 0
    /\ \E i \in 1..Len(candidates) :
          /\ candidates[i].prediction # ""
          /\ candidates[i].loop_abort_reason # <<>>


\* C15: scenario S5.  When attempt 1 ended as LoopAborted and attempt 2
\* produced a Candidate with clean_resolution true and a non-empty patch, no
\* third attempt is started, the returned Prediction is attempt 2's
\* Candidate, attempts_used is 2 and attempt_summaries has length 2.
C15_SecondAttemptWins ==
    (/\ pc = "returned"
     /\ Len(candidates) >= 2
     /\ candidates[1].attempt = 1
     /\ candidates[1].status = "LoopAborted"
     /\ candidates[2].attempt = 2
     /\ candidates[2].clean_resolution = Some(TRUE)
     /\ candidates[2].prediction # "")
        => /\ started = <<1, 2>>
           /\ Val(best_candidate).attempt = 2
           /\ Val(prediction).prediction = candidates[2].prediction
           /\ Val(prediction).status = candidates[2].status
           /\ Val(prediction).attempts_used = 2
           /\ Len(Val(prediction).attempt_summaries) = 2


C17_SetupFailureRecorded ==
    (pc = "returned" /\ repo_path = None) =>
        /\ \E i \in 1..Len(Val(prediction).attempt_summaries) :
              Val(prediction).attempt_summaries[i].attempt = attempt_idx
        /\ Val(prediction).attempts_used = Len(started)


\* C18: when the agent run has failed with an exception that is not
\* retried, the attempt ends without a Candidate if the working tree holds
\* no diff, and goes on to the gates with the working tree as it is if it
\* holds one.
C18_PartialDiffReachesGates ==
    [][(pc = "except" /\ exc # None /\ Val(exc) \in ErrorKinds) =>
          IF tree = ""
          THEN pc' = "finally" /\ candidates' = candidates
          ELSE pc' = "gate"]_vars


\* C19: a GraphRAG failure is never fatal.  With GraphRAG enabled, the
\* workspace acquisition fails only on a git failure, whatever build_graph
\* did; the test gate never raises; a step in which the impacted-test call
\* raised leaves the recorded impacted failures alone and decides on a
\* repair round by the FAIL_TO_PASS rule alone, as a call reporting no
\* failure does; and a GraphRAG repair round is started only on a reported
\* failure.
C19_GraphragNeverFatal ==
    [][cfg.mode.graphrag_enabled =>
          /\ (pc = "setup" /\ pc' = "except") => exc' = Some("CalledProcessError")
          /\ pc = "tests" =>
                LET test_round == /\ RoundsLeft(fix_round, MaxFixRounds)
                                  /\ test_metrics'.f2p_total > 0
                                  /\ ~test_metrics'.f2p_all_passed
                    raised == graphrag_meta'.impacted_raised /\ ~graphrag_meta.impacted_raised
                IN  /\ pc' \in {"emit", "run_start"}
                    /\ exc' = None
                    /\ pc' = "emit" => ~test_round
                    /\ pc' = "run_start" =>
                          \/ /\ task' = FormatGraphragFailureTask
                             /\ graphrag_meta'.impacted_failed > 0
                             /\ ~raised
                          \/ /\ task' = FormatTestFailureTask(test_metrics')
                             /\ test_round
                    /\ raised =>
                          /\ graphrag_meta'.impacted_failed = graphrag_meta.impacted_failed
                          /\ pc' = "run_start" <=> test_round]_vars

\* A run with GraphRAG enabled whose graph build failed and whose
\* impacted-test call raised, returned with the Candidate of a submitted,
\* non-empty patch.
C19_Witness ==
    /\ pc = "returned"
    /\ cfg.mode.graphrag_enabled
    /\ ~graphrag_meta.graph_built
    /\ graphrag_meta.impacted_raised
    /\ graphrag_meta.impacted_failed = 0
    /\ Len(candidates) = 1
    /\ candidates[1].status = "Submitted"
    /\ candidates[1].prediction # ""
    /\ Val(prediction).prediction = candidates[1].prediction

\* C20: a pytest run that outlives its timeout yields passed = 0, failed =
\* the number of tests asked for and return code 124; the subset then
\* counts as failed (no FAIL_TO_PASS test passed, every smoke test failed,
\* no clean resolution); and the test gate raises nothing: the attempt goes
\* on to a repair round or to its Candidate.  In these runs a subset with a
\* failure is one whose pytest run timed out.
C20_PytestTimeout ==
    /\ [](/\ \A n \in 0..MaxTests :
               RunPytestSubset(n, TimedOut) = [passed |-> 0, failed |-> n, returncode |-> 124]
          /\ test_metrics.f2p_failed \notin {None, Some(0)} =>
                /\ test_metrics.f2p_passed = Some(0)
                /\ test_metrics.f2p_failed = Some(cfg.f2p_n)
                /\ test_metrics.f2p_pass_rate = Some(<<0, cfg.f2p_n>>)
                /\ ~test_metrics.f2p_all_passed
                /\ test_metrics.clean_resolution = None
          /\ test_metrics.p2p_smoke_failures \notin {None, Some(0)} =>
                /\ test_metrics.p2p_smoke_failures = Some(cfg.p2p_n)
                /\ test_metrics.clean_resolution # Some(TRUE)
          /\ \A i \in 1..Len(candidates) :
                candidates[i].clean_resolution = Some(TRUE) =>
                    /\ candidates[i].f2p_pass_rate = Some(<<cfg.f2p_n, cfg.f2p_n>>)
                    /\ candidates[i].p2p_smoke_failures = Some(0))
    /\ [][pc = "tests" =>
             /\ pc' \in {"emit", "run_start"}
             /\ exc' = None
             /\ blocked_on' = blocked_on
             /\ (pc' = "run_start") =
                   (/\ test_metrics'.f2p_failed \notin {None, Some(0)}
                    /\ RoundsLeft(fix_round, MaxFixRounds))]_vars

\* A returned run whose only Candidate was emitted after the FAIL_TO_PASS
\* run and the smoke run both timed out, in the first round and again in
\* the repair round.
C20_Witness ==
    /\ pc = "returned"
    /\ cfg.f2p_n > 0
    /\ cfg.p2p_n > 0
    /\ fix_round = 1
    /\ test_metrics.f2p_failed = Some(cfg.f2p_n)
    /\ Len(candidates) = 1
    /\ candidates[1].f2p_pass_rate = Some(<<0, cfg.f2p_n>>)
    /\ candidates[1].p2p_smoke_failures = Some(cfg.p2p_n)
    /\ candidates[1].clean_resolution = None
    /\ Val(prediction).f2p_pass_rate = Some(<<0, cfg.f2p_n>>)


\* C21: the gate fails a diff with catastrophic_deletion exactly when the
\* diff removes more than 50 lines, adds at least one and removes more than
\* 5 times what it adds; the diff that removes 600 lines and adds 10 is
\* rejected with the numbers 600 and 10 in its reason and leaves an empty
\* patch; the diff that removes 40 lines and adds 39 is not failed for it.
C21_CatastrophicDeletion ==
    last_patch_gate # EmptyGate =>
        LET d == last_patch_gate.diff
            removed == RemovedContent(d)
            added == AddedContent(d)
        IN  /\ HasToken(last_patch_gate.fail_reasons, "catastrophic_deletion")
                  <=> (/\ removed > catastrophic_deletion_floor
                       /\ added > 0
                       /\ removed > catastrophic_deletion_ratio * added)
            /\ d = "d_del" =>
                  /\ HasToken(last_patch_gate.fail_reasons, "catastrophic_deletion")
                  /\ last_patch_gate.metrics.removed_lines = 600
                  /\ last_patch_gate.metrics.added_lines = 10
                  /\ patch = ""
            /\ d = "d_swap" =>
                  ~HasToken(last_patch_gate.fail_reasons, "catastrophic_deletion")

\* C22: with the compile gate on, every changed .py file whose current
\* source does not compile is named in compile_failed_files, and the
\* decision fails with syntax_compile_failed, when its HEAD baseline
\* compiles or is missing; when its baseline does not compile either it is
\* not named and the decision carries the compile_preexisting_failures
\* warning; a file whose source compiles is not named; and neither reason
\* appears without such a file.
C22_CompileGateClassification ==
    (last_patch_gate # EmptyGate /\ cfg.patch_compile_gate) =>
        LET g == last_patch_gate
            py == DiffInfo(g.diff).py
            Named(f) == \E i \in 1..Len(g.compile_gate.compile_failed_files) :
                            g.compile_gate.compile_failed_files[i] = f.file
            Regressed(f) == ~f.current_ok /\ f.baseline \in {"ok", "missing"}
            Preexisting(f) == ~f.current_ok /\ f.baseline = "fail"
        IN  /\ \A i \in 1..Len(py) :
                  /\ Regressed(py[i]) =>
                        /\ Named(py[i])
                        /\ HasToken(g.fail_reasons, "syntax_compile_failed")
                        /\ ~g.valid /\ g.severity = "fail"
                  /\ Preexisting(py[i]) =>
                        /\ ~Named(py[i])
                        /\ HasToken(g.warn_reasons, "compile_preexisting_failures")
                  /\ py[i].current_ok => ~Named(py[i])
            /\ HasToken(g.fail_reasons, "syntax_compile_failed")
                  <=> \E i \in 1..Len(py) : Regressed(py[i])
            /\ HasToken(g.warn_reasons, "compile_preexisting_failures")
                  <=> \E i \in 1..Len(py) : Preexisting(py[i])
            /\ ~HasToken(g.fail_reasons, "compile_preexisting_failures")
            /\ g.compile_gate.compile_failed = Len(g.compile_gate.compile_failed_files)

\* Gate decisions on a new file that does not compile, on a file whose
\* baseline did not compile either, and on three files of which one
\* regressed, one was broken before and one compiles.
C22_Witness ==
    /\ cfg.patch_compile_gate
    /\ pc = "returned"
    /\ last_patch_gate.diff = "d_mix"
    /\ last_patch_gate.compile_gate.compile_failed_files = <<"a.py">>
    /\ last_patch_gate.compile_gate.compile_skipped_preexisting = 1
    /\ last_patch_gate.severity = "fail"
    /\ Len(candidates) = 1
    /\ candidates[1].prediction = ""

\* C29: the gate's metrics count the lines the diff adds and the lines it
\* removes, and nothing else.
C29_ContentLinesOnly ==
    last_patch_gate # EmptyGate =>
        /\ last_patch_gate.metrics.added_lines = AddedContent(last_patch_gate.diff)
        /\ last_patch_gate.metrics.removed_lines = RemovedContent(last_patch_gate.diff)
        /\ last_patch_gate.metrics.changed_lines_total
              = AddedContent(last_patch_gate.diff) + RemovedContent(last_patch_gate.diff)


\* C23, as stated: two calls on the same task with the same settings, the
\* same agent and the same environment return the same Prediction, field
\* for field.
C23_SamePrediction ==
    (pc = "returned" /\ previous # None) => prediction = previous

\* What the clock decides of a Prediction: elapsed, the measured duration
\* of the winning attempt's agent run.
Timeless(p) == [p EXCEPT !.elapsed = 0]

\* C23, amended: the two Predictions agree in every field but elapsed.
C23_SamePredictionButElapsed ==
    (pc = "returned" /\ previous # None) =>
        Timeless(Val(prediction)) = Timeless(Val(previous))

\* Both calls returned a Prediction with a patch chosen among two attempts.
C23_Witness ==
    /\ pc = "returned"
    /\ previous # None
    /\ Val(previous).prediction # ""
    /\ Val(previous).attempts_used = 2
    /\ Val(prediction).elapsed # Val(previous).elapsed
    /\ Timeless(Val(prediction)) = Timeless(Val(previous))


\* The order of C24 on two Candidates, key by key: a non-empty patch first,
\* then the greater f2p pass rate, then fewer p2p smoke failures, then no
\* loop abort recorded, then the shorter patch; a null rate and a null
\* failure count are 0.
NonEmptyKey(c) == IF c.prediction # "" THEN 1 ELSE 0
RateKey(c) == IF c.f2p_pass_rate = None THEN <<0, 1>> ELSE Val(c.f2p_pass_rate)
FailuresKey(c) == IF c.p2p_smoke_failures = None THEN 0 ELSE Val(c.p2p_smoke_failures)
AbortKey(c) == IF c.loop_abort_reason # <<>> THEN 1 ELSE 0
CharsKey(c) == DiffInfo(c.prediction).chars
Outranks(a, b) ==
    \/ NonEmptyKey(a) > NonEmptyKey(b)
    \/ /\ NonEmptyKey(a) = NonEmptyKey(b)
       /\ \/ FracLT(RateKey(b), RateKey(a))
          \/ /\ FracEQ(RateKey(a), RateKey(b))
             /\ \/ FailuresKey(a) < FailuresKey(b)
                \/ /\ FailuresKey(a) = FailuresKey(b)
                   /\ \/ AbortKey(a) < AbortKey(b)
                      \/ /\ AbortKey(a) = AbortKey(b)
                         /\ CharsKey(a) < CharsKey(b)

\* C24: over the Candidates of a call, one score is greater than another
\* exactly when its Candidate outranks the other in the order above; a
\* Candidate with a non-empty patch outscores every Candidate with an empty
\* one; the best candidate is outranked by no Candidate; and a call that
\* returns after a Candidate with a non-empty patch returns a non-empty
\* prediction.
C24_LexicographicRanking ==
    /\ \A i, j \in 1..Len(candidates) :
          LET a == candidates[i]
              b == candidates[j]
          IN  /\ TupleGT(ScoreCandidate(a), ScoreCandidate(b)) <=> Outranks(a, b)
              /\ (a.prediction # "" /\ b.prediction = "")
                    => TupleGT(ScoreCandidate(a), ScoreCandidate(b))
    /\ \A i \in 1..Len(candidates) : ~Outranks(candidates[i], Val(best_candidate))
    /\ (pc = "returned" /\ \E i \in 1..Len(candidates) : candidates[i].prediction # "")
          => Val(prediction).prediction # ""

\* A call returned the non-empty patch of its second Candidate, whose f2p
\* pass rate is below that of the first, empty, Candidate.
C24_Witness ==
    /\ pc = "returned"
    /\ Len(candidates) = 2
    /\ candidates[1].prediction = ""
    /\ candidates[2].prediction # ""
    /\ FracLT(RateKey(candidates[2]), RateKey(candidates[1]))
    /\ Val(prediction).prediction = candidates[2].prediction


\* C25: a returned Prediction never has clean_resolution true together with
\* an empty prediction.
C25_NoCleanEmptyPrediction ==
    pc = "returned" =>
        ~(Val(prediction).clean_resolution = Some(TRUE) /\ Val(prediction).prediction = "")


\* C26: a Candidate carries a loop_abort_reason exactly when its agent run
\* ended with the status LoopAborted.
C26_ReasonIffLoopAborted ==
    \A i \in 1..Len(candidates) :
        (candidates[i].loop_abort_reason # <<>>) <=> (candidates[i].status = "LoopAborted")


\* C27: when the detector handles the user message that answers an
\* assistant message without a bash block (the format-error message), the
\* search streak is 0 afterwards.
C27_NoCommandResetsSearchStreak ==
    [][(/\ pc = "agent"
        /\ agent_pc = "format_error"
        /\ agent_pc' # "format_error"
        /\ Detects(cfg.loop_policy))
          => diff_state'.search_streak = 0]_vars


\* The abort conditions as the detection state shows them once a user
\* message was handled, in the order of C28.
AbortConditions(ds) ==
    <<[tag |-> "repeated_failing_command",
       holds |-> ds.failed_cmd_streak >= repeated_fail_limit],
      [tag |-> "search_only_streak",
       holds |-> ds.search_streak >= search_streak_limit],
      [tag |-> "sed_fail_streak",
       holds |-> ds.sed_fail_streak >= sed_fail_limit],
      [tag |-> "no_diff_streak",
       holds |-> ds.seen_nonempty /\ ds.no_diff_streak >= no_diff_streak_limit]>>

C30_CountersTakePrecedence ==
    test_metrics.f2p_passed \in {None, Some(0)}


\* C31: whenever the metrics say f2p_all_passed, every requested
\* fail-to-pass test passed: f2p_passed is f2p_total and the pass rate is 1;
\* so a clean resolution has the pass rate 1.
C31_AllPassedMeansEveryTestPassed ==
    /\ test_metrics.f2p_all_passed =>
          /\ test_metrics.f2p_passed = Some(test_metrics.f2p_total)
          /\ FracEQ(Val(test_metrics.f2p_pass_rate), <<1, 1>>)
    /\ test_metrics.clean_resolution = Some(TRUE) =>
          FracEQ(Val(test_metrics.f2p_pass_rate), <<1, 1>>)


\* What C32 says of one step, the compile-repair task listing `named`: a
\* gate evaluation that reports compile failures while compile-repair
\* rounds remain sends the same attempt, in the same clone, into a new
\* agent run with that task, without running the tests or building a
\* Candidate; that agent run then starts; and a Candidate records as
\* compile_fix_rounds the compile-repair rounds its attempt went through,
\* and is clean when, after such a round, nothing fails to compile and the
\* tests pass.
CompileRepairStep(named) ==
    /\ (/\ pc = "gate"
        /\ pc' \in {"run_start", "tests"}
        /\ last_patch_gate'.compile_gate.compile_failed > 0
        /\ compile_fix_round < MaxCompileFixRounds)
          => /\ pc' = "run_start"
             /\ task' = [kind |-> "compile_repair", files |-> named]
             /\ compile_fix_round' = compile_fix_round + 1
             /\ attempt_idx' = attempt_idx
             /\ repo_path' = repo_path
             /\ tree' = tree
             /\ test_metrics' = test_metrics
             /\ candidates' = candidates
             /\ attempt_summaries' = attempt_summaries
    /\ (pc = "run_start" /\ pc' = "agent" /\ task.kind = "compile_repair")
          => /\ runs' = runs + 1
             /\ task' = task
             /\ attempt_idx' = attempt_idx
             /\ repo_path' = repo_path
    /\ (pc = "emit" /\ pc' = "finally")
          => LET c == candidates'[Len(candidates')]
             IN  /\ c.compile_fix_rounds = runs - 1 - fix_round
                 /\ (/\ c.compile_fix_rounds > 0
                     /\ last_patch_gate.compile_gate.compile_failed = 0
                     /\ test_metrics.f2p_all_passed
                     /\ test_metrics.p2p_smoke_failures = Some(0))
                       => c.clean_resolution = Some(TRUE)

\* C32, as stated: the compile-repair task names the failing files of the
\* gate's report, all of them.
C32_RepairTaskNamesFailingFiles ==
    [][CompileRepairStep(last_patch_gate'.compile_gate.compile_failed_files)]_vars

\* C32, amended: the compile-repair task names the failing files of the
\* gate's report up to the tenth.
C32_RepairTaskNamesFirstFiles ==
    [][LET failed == last_patch_gate'.compile_gate.compile_failed_files
       IN  CompileRepairStep([i \in 1..(IF Len(failed) < compile_task_file_limit
                                        THEN Len(failed)
                                        ELSE compile_task_file_limit) |-> failed[i]])]_vars

\* Scenario S2: after one compile-repair round the attempt's Candidate is
\* clean and carries the repaired patch.
C32_Witness ==
    /\ Len(candidates) = 1
    /\ candidates[1].compile_fix_rounds = 1
    /\ candidates[1].clean_resolution = Some(TRUE)
    /\ candidates[1].prediction # ""
    /\ candidates[1].patch_gate_valid


\* C33: in one driver run agent.run is entered at most 1 + max_retries
\* times; it is entered again only from a model call that raised, with the
\* run going on in the same attempt; a ConnectionError leaves the driver
\* only when max_retries re-entries were made; and a run that returned or
\* was aborted is not entered again.
C33_BoundedRetries ==
    /\ [](retry <= max_retries)
    /\ [][/\ retry' > retry =>
                /\ retry' = retry + 1
                /\ pc = "agent" /\ agent_pc = "model"
                /\ pc' = "agent" /\ agent_pc' = "system"
                /\ exc' = None
          /\ (exc = None /\ exc' = Some("ConnectionError")) => retry = max_retries
          /\ (pc = "agent" /\ agent_pc \in {"aborted", "Submitted", "LimitsExceeded"})
                => /\ retry' <= retry
                   /\ agent_pc' \in {agent_pc, "idle"}]_vars

\* The third connection failure of a driver run left it as an exception.
C33_Witness ==
    /\ pc = "except"
    /\ exc = Some("ConnectionError")
    /\ runs = 1


\* C34: the task an attempt starts with is the plain task for attempt 1
\* and, for attempt k > 1, the task with the retry guidance for index k,
\* which states the patch gate reason and the loop abort reason of attempt
\* k - 1, and states none when attempt k - 1 ended without a Candidate.
C34_GuidanceOfPriorAttempt ==
    [][(pc = "setup" /\ pc' = "run_start") =>
          IF attempt_idx = 1
          THEN task' = [kind |-> "initial"]
          ELSE LET prior == {i \in 1..Len(candidates) :
                                candidates[i].attempt = attempt_idx - 1}
               IN  /\ task'.kind = "retry"
                   /\ task'.retry_idx = attempt_idx
                   /\ \A i \in prior :
                         /\ task'.gate_reason = candidates[i].patch_gate_reason
                         /\ task'.loop_reason = candidates[i].loop_abort_reason
                   /\ prior = {} =>
                         /\ task'.gate_reason = <<>>
                         /\ task'.loop_reason = <<>>]_vars


\* C35: on every observation the detector handles (a user message with a
\* return code rc, answering the command last_cmd), failed_cmd_streak goes
\* up by one when rc is not 0 and the normalized command is the one that
\* failed before, becomes 1 when rc is not 0 and the normalized command is
\* another one, and becomes 0 when rc is 0; the message sets the reason
\* repeated_failing_command exactly when the streak is then at least
\* repeated_fail_limit; and under the strict policy a streak at the limit
\* ends the agent's run: it is never where the agent would be called again.
C35_StreakAtLimit ==
    (Detects(cfg.loop_policy) /\ diff_state.failed_cmd_streak >= repeated_fail_limit)
        => /\ loop_abort_reason # <<>>
           /\ cfg.loop_policy = "strict" => agent_pc = "aborted"
C35_FailedCommandStreak ==
    /\ []C35_StreakAtLimit
    /\ [][(/\ pc = "agent"
           /\ agent_pc = "execute"
           /\ agent_pc' # "execute"
           /\ Detects(cfg.loop_policy)
           /\ ~IsNone(forwarded'.body.returncode))
             => LET rc == Val(forwarded'.body.returncode)
                    norm == NormalizeCommand(last_cmd)
                    was == diff_state.failed_cmd_streak
                    now == diff_state'.failed_cmd_streak
                    sets == /\ HasToken(forwarded'.warnings, AbortWarning)
                            /\ loop_abort_reason'[1] = "repeated_failing_command"
                IN  /\ (rc # 0 /\ diff_state.failed_cmd_norm = norm) => now = was + 1
                    /\ (rc # 0 /\ diff_state.failed_cmd_norm # norm) => now = 1
                    /\ rc = 0 => now = 0
                    /\ sets <=> now >= repeated_fail_limit
                    /\ (cfg.loop_policy = "strict" /\ now >= repeated_fail_limit)
                          => agent_pc' = "aborted"]_vars
C35_Witness ==
    /\ cfg.loop_policy = "strict"
    /\ agent_pc = "aborted"
    /\ diff_state.failed_cmd_streak = repeated_fail_limit
    /\ loop_abort_reason[1] = "repeated_failing_command"


\* C36: no_diff_streak goes up only on a user message by which a non-empty
\* diff has been seen in this run and whose diff signature equals the
\* previous one; it is 0 after a message whose signature differs from the
\* previous one; and while every signature of the run was EMPTY it is 0 and
\* the run has no abort reason no_diff_streak.
NoDiffStep(seen_so_far) ==
    (/\ pc = "agent"
     /\ pc' = "agent"
     /\ forwarded' # forwarded
     /\ forwarded'.role = "user")
        => LET was == diff_state.no_diff_streak
               now == diff_state'.no_diff_streak
               same == diff_state'.prev_sig = diff_state.prev_sig
           IN  /\ now > was => (seen_so_far /\ same /\ now = was + 1)
               /\ ~same => now = 0
NeverSeen(ever_seen) ==
    ~ever_seen
        => /\ diff_state.no_diff_streak = 0
           /\ loop_abort_reason # <<>> => loop_abort_reason[1] # "no_diff_streak"
C36_StreakNeedsSeenDiff ==
    /\ [](pc = "agent" => NeverSeen(diff_state.diff_seen \/ diff_state.err_seen))
    /\ [][NoDiffStep(diff_state'.diff_seen)]_vars

\* What the code has: what must have been seen is a signature other
\* than EMPTY, which a non-empty diff gives and also DIFF_ERR, the
\* signature of a `git diff HEAD` that could not be run.
NoDiffStreakNeedsSeenSignature ==
    /\ [](pc = "agent" => NeverSeen(diff_state.diff_seen \/ diff_state.err_seen))
    /\ [][NoDiffStep(diff_state'.diff_seen \/ diff_state'.err_seen)]_vars
NoDiffAbortReached ==
    /\ pc = "agent"
    /\ diff_state.diff_seen
    /\ diff_state.no_diff_streak = no_diff_streak_limit
    /\ loop_abort_reason = <<"no_diff_streak", no_diff_streak_limit>>


\* C37: the gate decision a Candidate records (valid, reason, severity, and
\* with them the patch) is the decision on the working tree as the
\* Candidate's own last agent run left it, whatever decisions earlier
\* repair rounds and earlier attempts left in _last_patch_gate_decision.
C37_CandidateHasOwnDecision ==
    [][(pc = "emit" /\ pc' = "finally")
          => LET c == candidates'[Len(candidates')]
                 own == ValidatePatchQuality(tree, cfg.patch_compile_gate)
             IN  /\ c.patch_gate_valid = own.valid
                 /\ c.patch_gate_reason = own.reason
                 /\ c.patch_gate_severity = own.severity
                 /\ c.prediction = ExtractPatch(own)]_vars
C37_Witness ==
    \E i \in 1..Len(candidates) :
        /\ candidates[i].patch_gate_valid
        /\ \/ candidates[i].compile_fix_rounds > 0
           \/ /\ i > 1
              /\ ~candidates[i - 1].patch_gate_valid


\* C38: every message the wrapper is given and returns from (or raises
\* after) has been forwarded, as one message of the same role: a system
\* and an assistant message with its content and nothing added, under
\* every policy; a user message with its content and nothing added under
\* 'off'; under 'warn' and 'strict' a user message with the warnings of the
\* detector first and its content after them; and no other step forwards
\* anything.
UserContentAt(where) ==
    CASE where = "task" -> {TaskContent}
      [] where = "format_error" -> {FormatErrorContent}
      [] where = "execute" -> {TimeoutContent} \cup {ObservationContent(rc) : rc \in {0, 1}}
      [] OTHER -> {ExitContent}
WrapperStep ==
    /\ pc = "agent"
    /\ pc' = "agent"
    /\ retry' = retry
    /\ \/ agent_pc' # agent_pc
       \/ n_calls' # n_calls
C38_ForwardedOnceUnchanged ==
    [][/\ WrapperStep /\ agent_pc = "system"
            => forwarded' = [role |-> "system", warnings |-> <<>>, body |-> <<"system">>]
       /\ WrapperStep /\ n_calls' # n_calls
            => /\ forwarded'.role = "assistant"
               /\ forwarded'.warnings = <<>>
               /\ forwarded'.body \in {NoCmd, last_cmd'}
               /\ forwarded'.body = NoCmd <=> agent_pc' = "format_error"
       /\ WrapperStep /\ agent_pc # "system" /\ n_calls' = n_calls
            => /\ forwarded'.role = "user"
               /\ forwarded'.body \in UserContentAt(agent_pc)
               /\ forwarded'.warnings =
                     IF cfg.loop_policy = "off" THEN <<>>
                     ELSE Detect(diff_state, forwarded'.body, last_cmd, command_history,
                                 diff_state'.prev_sig, cfg.darwin).loop_warnings
       /\ ~WrapperStep => forwarded' \in {forwarded, NoMessage}]_vars
C38_Witness ==
    /\ cfg.loop_policy = "warn"
    /\ forwarded.role = "user"
    /\ forwarded.body = ObservationContent(1)
    /\ Len(forwarded.warnings) >= 2


\* C39: when _setup_repository returns a workspace, every git child it ran
\* after the shallow clone exited with code 0 (the full clone where the
\* shallow clone failed, the unshallow fetch, the checkout of base_commit);
\* and when a child other than the shallow clone exited with another code,
\* no workspace is returned and the attempt has the error.
Returned == pc = "run_start" /\ git_steps # <<>>
Refused == pc = "except" /\ exc = Some("CalledProcessError") /\ repo_path = None
StepsAfterShallow == {i \in 1..Len(git_steps) : git_steps[i].step # "clone --depth 1"}
C39_EveryStepSucceeded ==
    /\ Returned => \A i \in StepsAfterShallow : git_steps[i].result = "ok"
    /\ (\E i \in StepsAfterShallow : git_steps[i].result = "fail") => Refused

\* C39 without the unshallow fetch, whose exit code is not looked at: a
\* workspace is returned only when a clone and the checkout of base_commit
\* exited with code 0, on a clean tree of the attempt's own clone; a failed
\* full clone or checkout is raised and leaves the attempt without one.
Checked == {i \in StepsAfterShallow : git_steps[i].step # "fetch --unshallow"}
C39_CloneAndCheckoutSucceeded ==
    /\ Returned
         => /\ \E i \in 1..Len(git_steps) :
                  /\ git_steps[i].step \in {"clone --depth 1", "clone"}
                  /\ git_steps[i].result = "ok"
            /\ git_steps[Len(git_steps)] = GitStep("checkout", "ok")
            /\ \A i \in Checked : git_steps[i].result = "ok"
            /\ repo_path = Some(attempt_idx)
            /\ tree = ""
    /\ (\E i \in Checked : git_steps[i].result = "fail") => Refused
C39_Witness ==
    /\ Returned
    /\ git_steps = <<GitStep("clone --depth 1", "fail"), GitStep("clone", "ok"),
                     GitStep("fetch --unshallow", "fail"), GitStep("checkout", "ok")>>


====
